---- MODULE Spec2Model ----
(***************************************************************************)
(* MetalOS kernel: core bring-up coordinator (SMPManager, smp.c) and the    *)
(* local interrupt controller calls it makes; dispatch table, legacy       *)
(* interrupt controllers and timer; spinlock.                              *)
(*                                                                         *)
(* Spec       : init() on the bootstrap core, step by step, interleaved    *)
(*              with the secondary cores that were sent a startup signal   *)
(*              and call markCPUOnline.                                    *)
(* LookupSpec : getCurrentCPU() called by any core, markCPUOnline called   *)
(*              by a secondary core and interrupt_handler called for any   *)
(*              vector, the state in which init() left the SMPManager      *)
(*              object (descriptors counted, multicore flag) taken as an   *)
(*              input.                                                     *)
(* BootSpec   : kernel_main on the bootstrap core: GDT::init, init() of    *)
(*              the dispatch table, Timer::init, smp_init step by step as  *)
(*              in Spec, with interrupt_handler called once the table is   *)
(*              loaded and the secondary cores calling markCPUOnline.      *)
(* LockSpec   : cores that take the spinlock with acquire or tryAcquire,   *)
(*              read and write data under it, and release it; stores go    *)
(*              through per-core FIFO store buffers.                       *)
(* IpiSpec    : sendIPI calls on one core, register access by register     *)
(*              access, with the local controller delivering the command   *)
(*              it was given at any later time.                            *)
(* ApiSpec    : init() step by step, with markCPUOnline and getCPUInfo     *)
(*              called with any argument at any time.                      *)
(* AnyLockSpec: LockSpec with init, release and isLocked called by any    *)
(*              core that is not spinning, holder or not.                  *)
(* FairLockSpec: LockSpec with callers that follow the protocol, every     *)
(*              core weakly fair in its exchange, section and release.     *)
(* FairInitSpec: Spec with every apic_send_ipi call followed through the   *)
(*              command register, on a machine with one secondary core;   *)
(*              bootstrap core and controller fair.                        *)
(* GateSpec   : setGate called with any arguments on the dispatch table.   *)
(***************************************************************************)
EXTENDS Integers, Sequences, FiniteSets, TLC

\* ---------------------------------------------------------------- constants
MAX_CPUS == 16
BSP_CPU_ID == 0
AP_TRAMPOLINE_ADDR == 32768
APIC_IPI_INIT == 1280
APIC_IPI_STARTUP == 1536
maxCPUsToTry == 12
PollRetries == 100
INIT_SETTLE_US == 10000
SIPI_SETTLE_US == 200
PageSize == 4096
MaxUint8 == 255

\* getCurrentCPU and handleInterrupt are followed on descriptor tables with
\* up to MaxCount counted descriptors
MaxCount == 3

\* The cores of the machine have hardware identities within 0..MaxApicId
\* (the bootstrap core possibly the highest 8-bit identity instead).
MaxApicId == 3

\* ---------------------------------------------------------------- state
VARIABLES
    cpuInfo,      \* SMPManager::cpuInfo[MAX_CPUS]
    cpuCount,     \* SMPManager::cpuCount
    smpEnabled,   \* SMPManager::smpEnabled
    pc,           \* position of the bootstrap core inside init()
    apicId,       \* loop variable of init() / argument of startAP()
    bspApicId,    \* local of init(): identity read from the local controller
    pollI,        \* loop variable i of startAP()
    apicAvail,    \* hardware: CPUID reports a local controller
    hwBspId,      \* hardware: identity of the bootstrap core
    hwCores,      \* hardware: identities of the secondary cores of the machine
    apState,      \* per secondary core: "halted", "running", "online"
    apSlot,       \* per secondary core: descriptor index handed to it
    ipiLog,       \* per candidate identity: IPIs sent by its startAP call, each with
                  \* the delay (microseconds) that follows it
    result,       \* per candidate identity: outcome of its startAP call
    polls,        \* per candidate identity: number of flag polls made
    marked,       \* secondary cores that have called markCPUOnline
    inWindow,     \* ... and did so before their own startAP call returned
    flagNow,      \* the descriptor created for the current candidate went online
    lastCall,     \* the startAP call that returned last: candidate, result, flagNow
    written,      \* descriptor indices written so far
    apicTouched,  \* the bootstrap core accessed its local controller
    caller,       \* getCurrentCPU: identity of the calling core
    ret,          \* getCurrentCPU: returned logical id (-1: no call yet)
    idRead,       \* getCurrentCPU: the call read the local controller
    callEnabled,  \* getCurrentCPU: smpEnabled as the call found it
    bootPc,       \* position of the bootstrap core inside kernel_main()
    idtI,         \* InterruptManager::init: vector of the next setGate call
    idt,          \* InterruptManager::idt[256]
    idtLoaded,    \* CPU: lidt has been executed
    intEnabled,   \* CPU: interrupt flag (sti)
    pic,          \* the two legacy interrupt controllers
    portLog,      \* port writes of remapPIC, in order
    ticks,        \* Timer::ticks
    lastDisp,     \* the handleInterrupt call that returned last
    mem,          \* shared memory: the lock word and the data it protects
    sbuf,         \* per core: store buffer (stores not yet globally visible)
    lpc,          \* per core: position in acquire / critical section / release
    oldValue,     \* per core: old_value of its latest exchange
    wcount,       \* number of critical-section stores to the data so far
    lastRead,     \* per core: what its last read of data inside the section returned
    lastTry,      \* the tryAcquire call that returned last
    icr,          \* local controller: the interrupt command register
    ipc,          \* sendIPI: position of the calling core
    iargs,        \* sendIPI: arguments of the call in progress
    iwrites,      \* sendIPI: register writes of the latest call, in order
    ipolled,      \* sendIPI: what the latest read of the pending bit returned
    idropped,     \* local controller: a command was written while one was pending
    gdt,          \* GDT::entries[5]
    gdtLoaded,    \* CPU: gdt_flush has been executed
    apiCall,      \* the markCPUOnline / getCPUInfo call that returned last
    lockCall,     \* the init / release / isLocked call on the lock that returned last
    gateCall      \* the setGate call that returned last

smpVars == <<cpuInfo, cpuCount, smpEnabled, pc, apicId, bspApicId, pollI>>
hwVars == <<apicAvail, hwBspId, hwCores>>
apVars == <<apState, apSlot>>
ghostVars == <<ipiLog, result, polls, marked, inWindow, flagNow, lastCall,
              written, apicTouched>>
lookupVars == <<caller, ret, idRead, callEnabled>>
intVars == <<bootPc, idtI, idt, idtLoaded, intEnabled, pic, portLog, ticks, lastDisp>>
lockVars == <<mem, sbuf, lpc, oldValue, wcount, lastRead, lastTry>>
apicVars == <<icr, ipc, iargs, iwrites, ipolled, idropped>>
gdtVars == <<gdt, gdtLoaded>>
apiVars == <<apiCall, lockCall, gateCall>>
moreVars == <<apicVars, gdtVars, apiVars>>
vars == <<smpVars, hwVars, apVars, ghostVars, lookupVars, intVars, lockVars, moreVars>>

CpuIndex == 0 .. (MAX_CPUS - 1)
Candidates == 0 .. (maxCPUsToTry - 1)
HwIds == 0 .. MaxApicId
BspIds == HwIds \cup {MaxUint8}

\* hardware: identities of the secondary cores of the machine
cores == hwCores

\* ---------------------------------------------------------------- helpers
\* cpu_info_t zero-initialised (static storage)
ZeroInfo == [cpu_id |-> 0, apic_id |-> 0, online |-> FALSE, kernel_stack |-> 0]

\* SMPManager::SMPManager()
ConstructorCount == 1

ConstructorInfo ==
    [i \in CpuIndex |->
        IF i = 0
        THEN [cpu_id |-> BSP_CPU_ID, apic_id |-> 0, online |-> FALSE, kernel_stack |-> 0]
        ELSE ZeroInfo]

\* SMPManager::initCPU
initCPU(info, cpuId, id) ==
    IF cpuId >= MAX_CPUS
    THEN info
    ELSE [info EXCEPT ![cpuId] =
            [cpu_id |-> cpuId, apic_id |-> id, online |-> FALSE, kernel_stack |-> 0]]

\* variant: no range check, the store lands in the array at the wrapped index
markCPUOnlineNoCheck(info, cpuId) ==
    [info EXCEPT ![cpuId % MAX_CPUS].online = TRUE]

\* variant: the descriptor is created anew with its flag set
markCPUOnlineFresh(info, cpuId) ==
    IF cpuId < MAX_CPUS
    THEN [info EXCEPT ![cpuId] =
            [cpu_id |-> cpuId, apic_id |-> 0, online |-> TRUE, kernel_stack |-> 0]]
    ELSE info

\* SMPManager::markCPUOnline
markCPUOnline(info, cpuId) ==
    IF cpuId < MAX_CPUS
    THEN [info EXCEPT ![cpuId].online = TRUE]
    ELSE info

\* descriptor indices stored to by initCPU / markCPUOnline
WriteIndex(cpuId) == IF cpuId >= MAX_CPUS THEN {} ELSE {cpuId}

\* variant: the store is left out
SetBspOnlineSkipped(info) == info

\* cpuInfo[BSP_CPU_ID].online = true
SetBspOnline(info) == [info EXCEPT ![BSP_CPU_ID].online = TRUE]

\* startAP: the scan of one poll iteration
APFound(info, count, id) ==
    \E cpuId \in 0 .. (count - 1) :
        info[cpuId].apic_id = id /\ info[cpuId].online

\* variant: i <= 100
PollAgainOffByOne(i) == i <= PollRetries

\* startAP: for (int i = 0; i < 100; i++), the test made with the incremented i
PollAgain(i) == i < PollRetries

\* variant: the vector is the second byte of the address, not its page number
SipiVectorAddressByte == (AP_TRAMPOLINE_ADDR \div (MaxUint8 + 1)) % (MaxUint8 + 1)

\* variant: the bootstrap identity is not skipped
SkipCandidateNever(id, bsp) == FALSE

\* init(): if (apicId == bspApicId) continue
SkipCandidate(id, bsp) == id = bsp

\* startAP: SIPI vector
SipiVector == AP_TRAMPOLINE_ADDR \div PageSize

\* init(): smpEnabled = (cpuCount > 1)
EnabledFor(count) == count > 1

\* init(): single core fallback assignments
FallbackCount == 1

\* SMPManager::getCurrentCPU: the table lookup
RECURSIVE LookupFrom(_, _, _, _)
LookupFrom(info, count, id, i) ==
    IF i >= count THEN BSP_CPU_ID
    ELSE IF info[i].apic_id = id THEN info[i].cpu_id
    ELSE LookupFrom(info, count, id, i + 1)

\* variant: the early return for inactive multicore is left out
getCurrentCPUNoCheck(info, count, enabled, id) == LookupFrom(info, count, id, 0)

\* variant: the loop compares the logical id with the hardware identity
RECURSIVE LookupLogical(_, _, _, _)
LookupLogical(info, count, id, i) ==
    IF i >= count THEN BSP_CPU_ID
    ELSE IF info[i].cpu_id = id THEN info[i].cpu_id
    ELSE LookupLogical(info, count, id, i + 1)

getCurrentCPUByLogical(info, count, enabled, id) ==
    IF ~enabled THEN BSP_CPU_ID ELSE LookupLogical(info, count, id, 0)

getCurrentCPU(info, count, enabled, id) ==
    IF ~enabled THEN BSP_CPU_ID ELSE LookupFrom(info, count, id, 0)

\* getCurrentCPU: does the call reach apic_get_id()
getCurrentCPUReadsId(enabled) == enabled

\* ---------------------------------------------------------------- interrupts
PIC1_COMMAND == 32
PIC1_DATA == 33
PIC2_COMMAND == 160
PIC2_DATA == 161
PIT_CHANNEL0 == 64
PIT_COMMAND == 67
PIT_BASE_FREQUENCY == 1193182
TIMER_FREQUENCY == 1000
APIC_REG_EOI == 176
APIC_REG_ICR_LOW == 768
APIC_REG_ICR_HIGH == 784
DELIVERY_STATUS == 4096
IDT_ENTRIES == 256
EXCEPTION_GATES == 32
KERNEL_CS == 8
GATE_FLAGS == 142
PRESENT_BIT == 128
PIC_EOI == 32
IRQ_FIRST == 32
IRQ_SLAVE_FIRST == 40
IRQ_END == 48
IRQ0_BIT == 1
Word == 65536
Byte == 256

\* Timer::ticks is not allowed to grow past MaxTicks in the model
MaxTicks == 1

Vectors == 0 .. (IDT_ENTRIES - 1)

\* the vectors whose delivery is followed: the ends of the exception range,
\* the ends and the inside of the two legacy controller ranges, the first
\* vector above them and the last vector
DispatchVectors ==
    {0, EXCEPTION_GATES - 1, IRQ_FIRST, IRQ_FIRST + 1, IRQ_SLAVE_FIRST - 1,
     IRQ_SLAVE_FIRST, IRQ_SLAVE_FIRST + 4, IRQ_END - 1, IRQ_END, IDT_ENTRIES - 1}

\* a 64-bit address is kept as four 16-bit limbs, least significant first
NullHandler == <<0, 0, 0, 0>>

\* addresses of the entry stubs isr0..isr31, irq0, irq1
StubAddr(v) == <<(v * 16) % Word, 16, 0, 0>>

\* idt_entry_t, zero-initialised (static storage)
ZeroEntry ==
    [offset_low |-> 0, selector |-> 0, ist |-> 0, type_attr |-> 0,
     offset_mid |-> 0, offset_high |-> <<0, 0>>, zero |-> 0]

\* idt[256] is kept as the function of its non-zero entries
ConstructorIdt == [v \in {} |-> ZeroEntry]

EntryAt(table, v) == IF v \in DOMAIN table THEN table[v] ELSE ZeroEntry

NonZeroVectors(table) == DOMAIN table

\* idt[n] = e
StoreEntry(table, n, e) ==
    IF e = ZeroEntry
    THEN [v \in DOMAIN table \ {n} |-> table[v]]
    ELSE [v \in DOMAIN table \cup {n} |-> IF v = n THEN e ELSE table[v]]

\* variant: the flags byte is not stored
setGateNoFlags(table, num, handler, selector, flags) ==
    StoreEntry(table, num % Byte,
        [offset_low  |-> handler[1],
         offset_mid  |-> handler[2],
         offset_high |-> <<handler[3], handler[4]>>,
         selector    |-> selector % Word,
         ist         |-> 0,
         type_attr   |-> 0,
         zero        |-> 0])

\* variant: bits 16..31 of the address are not shifted down
setGateMidUnshifted(table, num, handler, selector, flags) ==
    StoreEntry(table, num % Byte,
        [offset_low  |-> handler[1],
         offset_mid  |-> handler[1],
         offset_high |-> <<handler[3], handler[4]>>,
         selector    |-> selector % Word,
         ist         |-> 0,
         type_attr   |-> flags % Byte,
         zero        |-> 0])

\* InterruptManager::setGate
setGate(table, num, handler, selector, flags) ==
    StoreEntry(table, num % Byte,
        [offset_low  |-> handler[1],
         offset_mid  |-> handler[2],
         offset_high |-> <<handler[3], handler[4]>>,
         selector    |-> selector % Word,
         ist         |-> 0,
         type_attr   |-> flags % Byte,
         zero        |-> 0])

\* the handler address the CPU reads from a gate
HandlerOf(e) == <<e.offset_low, e.offset_mid, e.offset_high[1], e.offset_high[2]>>

\* the present bit (bit 7) of a gate
Present(e) == (e.type_attr \div PRESENT_BIT) % 2 = 1

\* variant: cascade wiring is written before the vector offsets
RemapWritesCascadeFirst ==
    << <<PIC1_COMMAND, 17>>, <<PIC2_COMMAND, 17>>,
       <<PIC1_DATA, 4>>,     <<PIC2_DATA, 2>>,
       <<PIC1_DATA, 32>>,    <<PIC2_DATA, 40>>,
       <<PIC1_DATA, 1>>,     <<PIC2_DATA, 1>>,
       <<PIC1_DATA, 255>>,   <<PIC2_DATA, 255>> >>

\* variant: the two mask writes are left out
RemapWritesNoMask ==
    << <<PIC1_COMMAND, 17>>, <<PIC2_COMMAND, 17>>,
       <<PIC1_DATA, 32>>,    <<PIC2_DATA, 40>>,
       <<PIC1_DATA, 4>>,     <<PIC2_DATA, 2>>,
       <<PIC1_DATA, 1>>,     <<PIC2_DATA, 1>> >>

\* remapPIC: the port writes, in program order
RemapWrites ==
    << <<PIC1_COMMAND, 17>>, <<PIC2_COMMAND, 17>>,
       <<PIC1_DATA, 32>>,    <<PIC2_DATA, 40>>,
       <<PIC1_DATA, 4>>,     <<PIC2_DATA, 2>>,
       <<PIC1_DATA, 1>>,     <<PIC2_DATA, 1>>,
       <<PIC1_DATA, 255>>,   <<PIC2_DATA, 255>> >>

\* Timer::init: the writes that program the interval timer
TimerDivisor == PIT_BASE_FREQUENCY \div TIMER_FREQUENCY

TimerWrites ==
    << <<PIT_COMMAND, 54>>,
       <<PIT_CHANNEL0, TimerDivisor % Byte>>,
       <<PIT_CHANNEL0, (TimerDivisor \div Byte) % Byte>> >>

\* The two legacy controllers. stage 0: operational, a write to the data port
\* sets the mask; stage 1..3: the next data write is ICW2, ICW3, ICW4.
\* A command write with bit 4 set is ICW1: it starts the sequence and clears
\* the mask. Any other command write (EOI) leaves masks and stages alone.
PicOutb(p, port, val) ==
    IF port = PIC1_COMMAND
    THEN IF (val \div 16) % 2 = 1
         THEN [p EXCEPT !.stage1 = 1, !.mask1 = 0]
         ELSE p
    ELSE IF port = PIC2_COMMAND
    THEN IF (val \div 16) % 2 = 1
         THEN [p EXCEPT !.stage2 = 1, !.mask2 = 0]
         ELSE p
    ELSE IF port = PIC1_DATA
    THEN IF p.stage1 = 0 THEN [p EXCEPT !.mask1 = val % Byte]
         ELSE IF p.stage1 = 1 THEN [p EXCEPT !.base1 = val % Byte, !.stage1 = 2]
         ELSE [p EXCEPT !.stage1 = (p.stage1 + 1) % 4]
    ELSE IF port = PIC2_DATA
    THEN IF p.stage2 = 0 THEN [p EXCEPT !.mask2 = val % Byte]
         ELSE IF p.stage2 = 1 THEN [p EXCEPT !.base2 = val % Byte, !.stage2 = 2]
         ELSE [p EXCEPT !.stage2 = (p.stage2 + 1) % 4]
    ELSE p

\* inb(PIC1_DATA): the mask register of the primary controller
PicInb(p) == p.mask1

\* Timer::init: mask &= ~0x01
UnmaskIrq0(mask) == mask - (mask % 2) * IRQ0_BIT

\* ---------------------------------------------------------------- descriptors
GDT_ENTRIES == 5
Nibble == 16

\* a 32-bit base or limit is kept as two 16-bit limbs, least significant first
Zero32 == <<0, 0>>
Max32 == <<65535, 65535>>

\* gdt_entry_t, zero-initialised (static storage)
ZeroGdtEntry ==
    [limit_low |-> 0, base_low |-> 0, base_middle |-> 0, access |-> 0,
     granularity |-> 0, base_high |-> 0]

ConstructorGdt == [n \in 0 .. (GDT_ENTRIES - 1) |-> ZeroGdtEntry]

\* variant: the flag half of gran is not merged into granularity
gdtSetGateLimitOnly(table, num, base, limit, access, gran) ==
    [table EXCEPT ![num] =
        [base_low    |-> base[1],
         base_middle |-> base[2] % Byte,
         base_high   |-> (base[2] \div Byte) % Byte,
         limit_low   |-> limit[1],
         granularity |-> limit[2] % Nibble,
         access      |-> access % Byte]]

\* GDT::setGate; the two halves of granularity are disjoint bit fields
gdtSetGate(table, num, base, limit, access, gran) ==
    [table EXCEPT ![num] =
        [base_low    |-> base[1],
         base_middle |-> base[2] % Byte,
         base_high   |-> (base[2] \div Byte) % Byte,
         limit_low   |-> limit[1],
         granularity |-> (limit[2] % Nibble) + ((gran % Byte) \div Nibble) * Nibble,
         access      |-> access % Byte]]

\* variant: the first descriptor is a present code segment
GdtGatesNullPresent ==
    << [num |-> 0, base |-> Zero32, limit |-> Max32,  access |-> 154, gran |-> 160],
       [num |-> 1, base |-> Zero32, limit |-> Max32,  access |-> 154, gran |-> 160],
       [num |-> 2, base |-> Zero32, limit |-> Max32,  access |-> 146, gran |-> 192],
       [num |-> 3, base |-> Zero32, limit |-> Max32,  access |-> 250, gran |-> 160],
       [num |-> 4, base |-> Zero32, limit |-> Max32,  access |-> 242, gran |-> 192] >>

\* GDT::init: the setGate calls, in program order
GdtGates ==
    << [num |-> 0, base |-> Zero32, limit |-> Zero32, access |-> 0,   gran |-> 0],
       [num |-> 1, base |-> Zero32, limit |-> Max32,  access |-> 154, gran |-> 160],
       [num |-> 2, base |-> Zero32, limit |-> Max32,  access |-> 146, gran |-> 192],
       [num |-> 3, base |-> Zero32, limit |-> Max32,  access |-> 250, gran |-> 160],
       [num |-> 4, base |-> Zero32, limit |-> Max32,  access |-> 242, gran |-> 192] >>

\* variant: interrupts are enabled before the gates are installed
IdtInitOrderStiFirst ==
    <<"idt_clear", "sti", "idt_exceptions", "remap", "irq_gates", "lidt">>

\* variant: the table is cleared after the gates are installed
IdtInitOrderClearLast ==
    <<"idt_exceptions", "remap", "irq_gates", "idt_clear", "lidt", "sti">>

\* InterruptManager::init, Timer::init and kernel_main as sequences of phases
IdtInitOrder == <<"idt_clear", "idt_exceptions", "remap", "irq_gates", "lidt", "sti">>

TimerInitOrder == <<"timer_program", "timer_unmask", "timer_ticks">>

\* GDT::init
GdtInitOrder == <<"gdt_gates", "gdt_flush">>

\* variant: smp_init is called before timer_init
KernelMainOrderSmpEarly ==
    GdtInitOrder \o IdtInitOrder \o <<"pmm_init", "heap_init">>
        \o <<"smp_init">> \o TimerInitOrder \o <<"pci_init", "halt">>

KernelMainOrder ==
    GdtInitOrder \o IdtInitOrder \o <<"pmm_init", "heap_init">>
        \o TimerInitOrder \o <<"pci_init", "smp_init", "halt">>

PhaseIndex(ph) == CHOOSE k \in DOMAIN KernelMainOrder : KernelMainOrder[k] = ph

NextPhase(ph) == KernelMainOrder[PhaseIndex(ph) + 1]

\* first value of the loop variable of a phase
PhaseStart(ph) ==
    IF ph = "irq_gates" THEN IRQ_FIRST
    ELSE IF ph \in {"gdt_gates", "remap", "timer_program"} THEN 1
    ELSE 0

\* one past the last value of the loop variable of a phase
PhaseEnd(ph) ==
    IF ph = "idt_clear" THEN IDT_ENTRIES
    ELSE IF ph = "idt_exceptions" THEN EXCEPTION_GATES
    ELSE IF ph = "irq_gates" THEN IRQ_FIRST + 2
    ELSE IF ph = "remap" THEN Len(RemapWrites) + 1
    ELSE IF ph = "gdt_gates" THEN Len(GdtGates) + 1
    ELSE IF ph = "timer_program" THEN Len(TimerWrites) + 1
    ELSE 0

\* ---------------------------------------------------------------- dispatch
Ev(op, a, b) == [op |-> op, a |-> a, b |-> b]

\* variant: the callback is called for every vector that is acknowledged
CallsTimerAnyIrq(int_no) == int_no >= IRQ_FIRST /\ int_no < IRQ_END

\* handleInterrupt: regs->int_no == 32
CallsTimer(int_no) == int_no = IRQ_FIRST

\* variant: the upper limit of the range is not tested
NeedsEoiNoUpperLimit(int_no) == int_no >= IRQ_FIRST

\* handleInterrupt: regs->int_no >= 32 && regs->int_no < 48
NeedsEoi(int_no) == int_no >= IRQ_FIRST /\ int_no < IRQ_END

\* variant: the multicore flag is not consulted
UseApicEoiAvailOnly(enabled, avail) == avail

\* handleInterrupt: smp_is_enabled() && apic_is_available()
UseApicEoi(enabled, avail) == enabled /\ avail

\* APIC::sendEOI
apic_send_eoi == <<Ev("apic_write", APIC_REG_EOI, 0)>>

\* variant: primary controller first
PicEoiPrimaryFirst(int_no) ==
    <<Ev("outb", PIC1_COMMAND, PIC_EOI)>>
        \o (IF int_no >= IRQ_SLAVE_FIRST THEN <<Ev("outb", PIC2_COMMAND, PIC_EOI)>> ELSE <<>>)

\* handleInterrupt: the legacy acknowledge
PicEoi(int_no) ==
    (IF int_no >= IRQ_SLAVE_FIRST THEN <<Ev("outb", PIC2_COMMAND, PIC_EOI)>> ELSE <<>>)
        \o <<Ev("outb", PIC1_COMMAND, PIC_EOI)>>

\* InterruptManager::handleInterrupt: the calls and device writes it makes, in order
handleInterrupt(int_no, enabled, avail) ==
    (IF CallsTimer(int_no) THEN <<Ev("timer_handler", 0, 0)>> ELSE <<>>)
        \o (IF NeedsEoi(int_no)
            THEN IF UseApicEoi(enabled, avail) THEN apic_send_eoi ELSE PicEoi(int_no)
            ELSE <<>>)

\* interrupt_handler (interrupts.c): the calls and device writes it makes,
\* in order; it dispatches to no handler and acknowledges on the legacy
\* controllers only
interrupt_handler(int_no) ==
    IF int_no >= IRQ_FIRST /\ int_no < IRQ_END
    THEN (IF int_no >= IRQ_SLAVE_FIRST THEN <<Ev("outb", PIC2_COMMAND, PIC_EOI)>> ELSE <<>>)
            \o <<Ev("outb", PIC1_COMMAND, PIC_EOI)>>
    ELSE <<>>

\* Timer::handleInterrupt
TimerTick(t) == t + 1

RECURSIVE TicksAfter(_, _)
TicksAfter(t, evs) ==
    IF evs = <<>> THEN t
    ELSE TicksAfter(IF Head(evs).op = "timer_handler" THEN TimerTick(t) ELSE t, Tail(evs))

RECURSIVE PicAfter(_, _)
PicAfter(p, evs) ==
    IF evs = <<>> THEN p
    ELSE PicAfter(IF Head(evs).op = "outb" THEN PicOutb(p, Head(evs).a, Head(evs).b) ELSE p,
                  Tail(evs))

NoDispatch ==
    [int_no |-> -1, events |-> <<>>, enabled |-> FALSE, avail |-> FALSE,
     before |-> 0, after |-> 0]

\* ---------------------------------------------------------------- spinlock
\* cores that use the lock
NumLockCores == 2
\* the cores write the protected data at most MaxWrites times in all
MaxWrites == 2
\* a store buffer holds at most MaxBuffered stores
MaxBuffered == 2

LockCores == 0 .. (NumLockCores - 1)

NoTry ==
    [core |-> -1, before |-> 0, result |-> FALSE, after |-> 0, exchanges |-> 0,
     holders |-> {}, holdersAfter |-> {}]

\* the protected data holds the number of the write and the core that made it
NoRead == [n |-> -1, by |-> -1]

\* a buffered store: the variable, the number stored (the lock word, or the
\* number of the write to the data) and, for the data, the core that wrote
\* the store release() makes
LockStore == [var |-> "lock", val |-> 0, by |-> -1]

\* the value a buffered store puts in memory
StoredValue(s) == IF s.var = "lock" THEN s.val ELSE [n |-> s.val, by |-> s.by]

\* variant: the exchange loads the lock word and stores nothing
XchgLoadOnly(m) == [mem |-> m, old |-> m.lock]

\* xchgl with 1 on the lock word: the memory after it and old_value
Xchg(m) == [mem |-> [m EXCEPT !.lock = 1], old |-> m.lock]

\* variant: the result of the exchange is ignored and the loop goes on
AcquireReturnsNever(old) == FALSE

\* variant: acquire returns after its first exchange
AcquireReturnsAlways(old) == TRUE

\* acquire: if (old_value == 0) return
AcquireReturns(old) == old = 0

\* variant: the result does not depend on old_value
tryAcquireTrue(m) ==
    [mem |-> Xchg(m).mem, old |-> Xchg(m).old, ret |-> TRUE, exchanges |-> 1]

\* Spinlock::tryAcquire
tryAcquire(m) ==
    [mem |-> Xchg(m).mem, old |-> Xchg(m).old, ret |-> (Xchg(m).old = 0), exchanges |-> 1]

\* variant: the store of 0 overtakes the stores made before release()
ReleaseStoresEarly(buf) == <<LockStore>> \o buf

\* variant: release() stores only when the calling core holds the lock
ReleaseStoresForHolder(buf, holder) == IF holder THEN Append(buf, LockStore) ELSE buf

\* Spinlock::release called by a core that holds the lock or does not: the
\* store is made without looking at who holds the lock
ReleaseStoresFor(buf, holder) == Append(buf, LockStore)

\* Spinlock::init: lock = 0
InitStores(buf) == Append(buf, LockStore)

\* Spinlock::isLocked: lock != 0
isLocked(word) == word # 0

\* Spinlock::release: the store buffer after "lock = 0"; the barrier keeps
\* the compiler from moving earlier stores below it, the processor drains the
\* buffer in order
ReleaseStores(buf) == Append(buf, LockStore)

\* ---------------------------------------------------------------- Init
HwInit ==
    /\ apicAvail \in BOOLEAN
    /\ hwBspId \in BspIds
    /\ hwCores = HwIds \ {hwBspId}

\* the SMPManager object with the given descriptors, count and flag, the
\* bootstrap core at position at, no secondary core started
SmpObject(info, count, enabled, at) ==
    /\ cpuInfo = info
    /\ cpuCount = count
    /\ smpEnabled = enabled
    /\ pc = at
    /\ apicId = 0
    /\ bspApicId = 0
    /\ pollI = 0
    /\ apState = [a \in HwIds |-> "halted"]
    /\ apSlot = [a \in HwIds |-> 0]
    /\ ipiLog = [a \in Candidates |-> <<>>]
    /\ result = [a \in Candidates |-> "untried"]
    /\ polls = [a \in Candidates |-> 0]
    /\ marked = {}
    /\ inWindow = {}
    /\ flagNow = FALSE
    /\ lastCall = [apic |-> -1, ok |-> FALSE, flagged |-> FALSE]
    /\ written = {0}
    /\ apicTouched = FALSE

SmpInit == SmpObject(ConstructorInfo, ConstructorCount, FALSE, "boot")

LookupIdle ==
    /\ caller = 0
    /\ ret = -1
    /\ idRead = FALSE
    /\ callEnabled = FALSE

\* state of the interrupt subsystem at construction (power-on controllers)
PicMasks == {0, 255}

PicReset(m1, m2) ==
    [mask1 |-> m1, mask2 |-> m2, stage1 |-> 0, stage2 |-> 0, base1 |-> 8, base2 |-> 112]

IntConstructed(p) ==
    /\ bootPc = KernelMainOrder[1]
    /\ idtI = PhaseStart(KernelMainOrder[1])
    /\ idt = ConstructorIdt
    /\ idtLoaded = FALSE
    /\ intEnabled = FALSE
    /\ pic = p
    /\ portLog = <<>>
    /\ ticks = 0
    /\ lastDisp = NoDispatch

GdtConstructed ==
    /\ gdt = ConstructorGdt
    /\ gdtLoaded = FALSE

IntInit == \E m1 \in PicMasks, m2 \in PicMasks : IntConstructed(PicReset(m1, m2))

\* no core uses the lock
LockIdle ==
    /\ mem = [lock |-> 0, data |-> [n |-> 0, by |-> -1]]
    /\ sbuf = [c \in LockCores |-> <<>>]
    /\ lpc = [c \in LockCores |-> "idle"]
    /\ oldValue = [c \in LockCores |-> 0]
    /\ wcount = 0
    /\ lastRead = [c \in LockCores |-> NoRead]
    /\ lastTry = NoTry

\* the interrupt command register of the local controller with no command in
\* it; p: the delivery of an earlier command is still pending (bit 12 of the
\* low half)
IcrReset(p) == [high |-> Zero32, low |-> <<IF p THEN DELIVERY_STATUS ELSE 0, 0>>]

NoIpiArgs == [dest |-> 0, vector |-> 0, mode |-> 0]

\* no sendIPI call has been made
IpiIdle(p) ==
    /\ icr = IcrReset(p)
    /\ ipc = "idle"
    /\ iargs = NoIpiArgs
    /\ iwrites = <<>>
    /\ ipolled = "none"
    /\ idropped = FALSE

NoApiCall ==
    [op |-> "none", id |-> 0, ret |-> -1, changed |-> {}, rest |-> TRUE, after |-> FALSE]

\* no markCPUOnline / getCPUInfo call has been made from outside init()
NoLockCall ==
    [op |-> "none", core |-> -1, holder |-> FALSE, ret |-> FALSE, stored |-> FALSE,
     same |-> TRUE]

\* no setGate call has been made from outside init()
NoGateCall ==
    [num |-> -1, handler |-> NullHandler, selector |-> 0, flags |-> 0,
     before |-> ConstructorIdt]

ApiIdle == apiCall = NoApiCall /\ lockCall = NoLockCall /\ gateCall = NoGateCall

\* what the specifications that do not follow these parts leave as constructed
RestIdle == GdtConstructed /\ IpiIdle(FALSE) /\ ApiIdle

\* Spec follows init() alone: the interrupt subsystem and the
\* lock stay as constructed
Init ==
    HwInit /\ SmpInit /\ LookupIdle /\ IntConstructed(PicReset(255, 255)) /\ LockIdle
    /\ RestIdle

\* ---------------------------------------------------------------- init()
\* variant: descriptor 0 is not marked online
InitFallbackNoOnline ==
    /\ pc = "boot"
    /\ ~apicAvail
    /\ cpuInfo' = initCPU(cpuInfo, BSP_CPU_ID, 0)
    /\ written' = written \cup WriteIndex(BSP_CPU_ID)
    /\ cpuCount' = FallbackCount
    /\ smpEnabled' = FALSE
    /\ pc' = "done"
    /\ UNCHANGED <<apicId, bspApicId, pollI, hwVars, apVars, ipiLog, result,
                   polls, marked, inWindow, flagNow, lastCall, apicTouched, lookupVars, intVars, lockVars, moreVars>>

\* variant: the local controller is enabled and its identity read before the
\* capability probe is looked at
InitFallbackAfterApicInit ==
    /\ pc = "boot"
    /\ ~apicAvail
    /\ apicTouched' = TRUE
    /\ bspApicId' = hwBspId
    /\ cpuInfo' = SetBspOnline(initCPU(cpuInfo, BSP_CPU_ID, 0))
    /\ written' = written \cup WriteIndex(BSP_CPU_ID)
    /\ cpuCount' = FallbackCount
    /\ smpEnabled' = FALSE
    /\ pc' = "done"
    /\ UNCHANGED <<apicId, pollI, hwVars, apVars, ipiLog, result,
                   polls, marked, inWindow, flagNow, lastCall, lookupVars, intVars, lockVars, moreVars>>

\* init(): capability probe false: single core mode
InitFallback ==
    /\ pc = "boot"
    /\ ~apicAvail
    /\ cpuInfo' = SetBspOnline(initCPU(cpuInfo, BSP_CPU_ID, 0))
    /\ written' = written \cup WriteIndex(BSP_CPU_ID)
    /\ cpuCount' = FallbackCount
    /\ smpEnabled' = FALSE
    /\ pc' = "done"
    /\ UNCHANGED <<apicId, bspApicId, pollI, hwVars, apVars, ipiLog, result,
                   polls, marked, inWindow, flagNow, lastCall, apicTouched, lookupVars, intVars, lockVars, moreVars>>

\* variant: multicore is declared active before the candidate loop
InitBspEnablesEarly ==
    /\ pc = "boot"
    /\ apicAvail
    /\ apicTouched' = TRUE
    /\ bspApicId' = hwBspId
    /\ cpuInfo' = SetBspOnline(initCPU(cpuInfo, BSP_CPU_ID, hwBspId))
    /\ written' = written \cup WriteIndex(BSP_CPU_ID)
    /\ apicId' = 0
    /\ smpEnabled' = TRUE
    /\ pc' = "loop"
    /\ UNCHANGED <<cpuCount, pollI, hwVars, apVars, ipiLog, result,
                   polls, marked, inWindow, flagNow, lastCall, lookupVars, intVars, lockVars, moreVars>>

\* init(): apic_init(), apic_get_id(), descriptor 0, loop variable
InitBsp ==
    /\ pc = "boot"
    /\ apicAvail
    /\ apicTouched' = TRUE
    /\ bspApicId' = hwBspId
    /\ cpuInfo' = SetBspOnline(initCPU(cpuInfo, BSP_CPU_ID, hwBspId))
    /\ written' = written \cup WriteIndex(BSP_CPU_ID)
    /\ apicId' = 0
    /\ pc' = "loop"
    /\ UNCHANGED <<cpuCount, smpEnabled, pollI, hwVars, apVars, ipiLog, result,
                   polls, marked, inWindow, flagNow, lastCall, lookupVars, intVars, lockVars, moreVars>>

\* init(): loop condition, skip of the bootstrap identity, initCPU(cpuCount, apicId)
LoopHead ==
    /\ pc = "loop"
    /\ IF apicId < maxCPUsToTry /\ cpuCount < MAX_CPUS
       THEN IF SkipCandidate(apicId, bspApicId)
            THEN /\ apicId' = apicId + 1
                 /\ UNCHANGED <<cpuInfo, written, smpEnabled, pc, ipiLog, pollI, flagNow>>
            ELSE /\ cpuInfo' = initCPU(cpuInfo, cpuCount, apicId)
                 /\ flagNow' = FALSE
                 /\ written' = written \cup WriteIndex(cpuCount)
                 /\ ipiLog' = [ipiLog EXCEPT ![apicId] = <<>>]
                 /\ pollI' = 0
                 /\ pc' = "init_ipi"
                 /\ UNCHANGED <<apicId, smpEnabled>>
       ELSE /\ smpEnabled' = EnabledFor(cpuCount)
            /\ pc' = "done"
            /\ UNCHANGED <<cpuInfo, written, apicId, ipiLog, pollI, flagNow>>
    /\ UNCHANGED <<cpuCount, bspApicId, hwVars, apVars, result, polls, marked,
                   inWindow, lastCall, apicTouched, lookupVars, intVars, lockVars, moreVars>>

\* ---------------------------------------------------------------- startAP()
\* apic_send_ipi(apicId, 0, APIC_IPI_INIT); delay(10000)
SendInitStep ==
    /\ pc = "init_ipi"
    /\ ipiLog' = [ipiLog EXCEPT ![apicId] = Append(@, <<apicId, 0, APIC_IPI_INIT, INIT_SETTLE_US>>)]
    /\ pc' = "sipi1"
    /\ UNCHANGED <<cpuInfo, cpuCount, smpEnabled, apicId, bspApicId, pollI,
                   hwVars, apVars, result, polls, marked, inWindow, flagNow, lastCall, written,
                   apicTouched, lookupVars, intVars, lockVars>>

SendInit == SendInitStep /\ UNCHANGED moreVars

\* effect of a STARTUP signal on the addressed core: a halted core that exists
\* starts running the trampoline, which is handed the descriptor created for it
Startup(st, id) ==
    IF id \in cores /\ st[id] = "halted" THEN [st EXCEPT ![id] = "running"] ELSE st

StartupSlot(sl, st, id, count) ==
    IF id \in cores /\ st[id] = "halted" THEN [sl EXCEPT ![id] = count] ELSE sl

\* apic_send_ipi(apicId, vector, APIC_IPI_STARTUP); delay(200), first
SendSipi1Step ==
    /\ pc = "sipi1"
    /\ ipiLog' = [ipiLog EXCEPT ![apicId] = Append(@, <<apicId, SipiVector, APIC_IPI_STARTUP, SIPI_SETTLE_US>>)]
    /\ apState' = Startup(apState, apicId)
    /\ apSlot' = StartupSlot(apSlot, apState, apicId, cpuCount)
    /\ pc' = "sipi2"
    /\ UNCHANGED <<cpuInfo, cpuCount, smpEnabled, apicId, bspApicId, pollI,
                   hwVars, result, polls, marked, inWindow, flagNow, lastCall, written,
                   apicTouched, lookupVars, intVars, lockVars>>

SendSipi1 == SendSipi1Step /\ UNCHANGED moreVars

\* apic_send_ipi(apicId, vector, APIC_IPI_STARTUP); delay(200), second
SendSipi2Step ==
    /\ pc = "sipi2"
    /\ ipiLog' = [ipiLog EXCEPT ![apicId] = Append(@, <<apicId, SipiVector, APIC_IPI_STARTUP, SIPI_SETTLE_US>>)]
    /\ apState' = Startup(apState, apicId)
    /\ apSlot' = StartupSlot(apSlot, apState, apicId, cpuCount)
    /\ pc' = "poll"
    /\ UNCHANGED <<cpuInfo, cpuCount, smpEnabled, apicId, bspApicId, pollI,
                   hwVars, result, polls, marked, inWindow, flagNow, lastCall, written,
                   apicTouched, lookupVars, intVars, lockVars>>

SendSipi2 == SendSipi2Step /\ UNCHANGED moreVars

\* the scan of one iteration of the polling loop; when the scan finds the
\* candidate, startAP returns true and init() counts the descriptor
Poll ==
    /\ pc = "poll"
    /\ polls' = [polls EXCEPT ![apicId] = pollI + 1]
    /\ IF APFound(cpuInfo, cpuCount, apicId)
       THEN /\ result' = [result EXCEPT ![apicId] = "started"]
            /\ lastCall' = [apic |-> apicId, ok |-> TRUE, flagged |-> flagNow]
            /\ cpuCount' = cpuCount + 1
            /\ apicId' = apicId + 1
            /\ pc' = "loop"
       ELSE /\ pc' = "wait"
            /\ UNCHANGED <<result, lastCall, cpuCount, apicId>>
    /\ UNCHANGED <<cpuInfo, smpEnabled, bspApicId, pollI, hwVars, apVars, ipiLog,
                   marked, inWindow, flagNow, written, apicTouched, lookupVars, intVars, lockVars, moreVars>>

\* the end of delay(10000) in the polling loop, i++ and the loop test; past
\* the last iteration startAP returns false and init() goes to the next
\* candidate
PollDelay ==
    /\ pc = "wait"
    /\ IF PollAgain(pollI + 1)
       THEN /\ pollI' = pollI + 1
            /\ pc' = "poll"
            /\ UNCHANGED <<result, apicId, lastCall>>
       ELSE /\ result' = [result EXCEPT ![apicId] = "timeout"]
            /\ lastCall' = [apic |-> apicId, ok |-> FALSE, flagged |-> flagNow]
            /\ apicId' = apicId + 1
            /\ pc' = "loop"
            /\ UNCHANGED pollI
    /\ UNCHANGED <<cpuInfo, cpuCount, smpEnabled, bspApicId, hwVars, apVars, ipiLog, polls,
                   marked, inWindow, flagNow, written, apicTouched, lookupVars, intVars, lockVars, moreVars>>

\* ---------------------------------------------------------------- secondary core
InStartAP(a) == pc \in {"sipi2", "poll", "wait"} /\ apicId = a

\* the bootstrap core is inside startAP(apicId) and descriptor idx is the one
\* init() created for that candidate
CreatedForCurrent(idx) ==
    pc \in {"init_ipi", "sipi1", "sipi2", "poll", "wait"} /\ idx = cpuCount

\* a started core reaches its online checkpoint: smp_cpu_online(slot)
APMarkOnline(a) ==
    /\ apState[a] = "running"
    /\ cpuInfo' = markCPUOnline(cpuInfo, apSlot[a])
    /\ written' = written \cup WriteIndex(apSlot[a])
    /\ apState' = [apState EXCEPT ![a] = "online"]
    /\ marked' = marked \cup {a}
    /\ inWindow' = IF InStartAP(a) THEN inWindow \cup {a} ELSE inWindow
    /\ flagNow' = (flagNow \/ CreatedForCurrent(apSlot[a]))
    /\ UNCHANGED lastCall
    /\ UNCHANGED <<cpuCount, smpEnabled, pc, apicId, bspApicId, pollI, hwVars,
                   apSlot, ipiLog, result, polls, apicTouched, lookupVars, intVars, lockVars, moreVars>>

Next ==
    \/ InitFallback
    \/ InitBsp
    \/ LoopHead
    \/ SendInit
    \/ SendSipi1
    \/ SendSipi2
    \/ Poll
    \/ PollDelay
    \/ \E a \in HwIds : APMarkOnline(a)

Spec == Init /\ [][Next]_vars

\* ---------------------------------------------------------------- init(), bootstrap core
\* the steps of init() and of the startAP calls it makes
InitStep ==
    \/ InitFallback
    \/ InitBsp
    \/ LoopHead
    \/ SendInit
    \/ SendSipi1
    \/ SendSipi2
    \/ Poll
    \/ PollDelay

\* ---------------------------------------------------------------- getCurrentCPU
\* a core of identity c calls getCurrentCPU()
GetCurrentCPUCall(c) ==
    /\ caller' = c
    /\ callEnabled' = smpEnabled
    /\ ret' = getCurrentCPU(cpuInfo, cpuCount, smpEnabled, c)
    /\ idRead' = getCurrentCPUReadsId(smpEnabled)
    /\ UNCHANGED <<smpVars, hwVars, apVars, ghostVars, intVars, lockVars, moreVars>>


\* ---------------------------------------------------------------- kernel_main
\* everything outside the interrupt subsystem
bootFrame == <<smpVars, hwVars, apVars, ghostVars, lookupVars, lockVars, moreVars>>

\* the bootstrap core is not inside interrupt_handler
Running == lastDisp = NoDispatch

\* loop increment; past the end of the loop, fall through to the next phase
StepPc(next) ==
    IF next < PhaseEnd(bootPc)
    THEN /\ bootPc' = bootPc
         /\ idtI' = next
    ELSE /\ bootPc' = NextPhase(bootPc)
         /\ idtI' = PhaseStart(NextPhase(bootPc))

\* init(): for (int i = 0; i < 256; i++) setGate(i, 0, 0, 0)
ClearGate ==
    /\ Running
    /\ bootPc = "idt_clear"
    /\ idt' = setGate(idt, idtI, NullHandler, 0, 0)
    /\ StepPc(idtI + 1)
    /\ UNCHANGED <<idtLoaded, intEnabled, pic, portLog, ticks, lastDisp, bootFrame>>

\* init(): setGate(n, isr_n / irq_n, 0x08, 0x8E)
InstallGate ==
    /\ Running
    /\ bootPc \in {"idt_exceptions", "irq_gates"}
    /\ idt' = setGate(idt, idtI, StubAddr(idtI), KERNEL_CS, GATE_FLAGS)
    /\ StepPc(idtI + 1)
    /\ UNCHANGED <<idtLoaded, intEnabled, pic, portLog, ticks, lastDisp, bootFrame>>

\* remapPIC / Timer::init: one outb
PortWrite ==
    /\ Running
    /\ bootPc \in {"remap", "timer_program"}
    /\ LET w == IF bootPc = "remap" THEN RemapWrites[idtI] ELSE TimerWrites[idtI] IN
        /\ pic' = PicOutb(pic, w[1], w[2])
        /\ portLog' = Append(portLog, w)
    /\ StepPc(idtI + 1)
    /\ UNCHANGED <<idt, idtLoaded, intEnabled, ticks, lastDisp, bootFrame>>

\* init(): lidt
LoadIdt ==
    /\ Running
    /\ bootPc = "lidt"
    /\ idtLoaded' = TRUE
    /\ StepPc(1)
    /\ UNCHANGED <<idt, intEnabled, pic, portLog, ticks, lastDisp, bootFrame>>

\* init(): sti
EnableInterrupts ==
    /\ Running
    /\ bootPc = "sti"
    /\ intEnabled' = TRUE
    /\ StepPc(1)
    /\ UNCHANGED <<idt, idtLoaded, pic, portLog, ticks, lastDisp, bootFrame>>

\* Timer::init: mask = inb(PIC1_DATA); mask &= ~0x01; outb(PIC1_DATA, mask)
TimerUnmask ==
    /\ Running
    /\ bootPc = "timer_unmask"
    /\ LET w == <<PIC1_DATA, UnmaskIrq0(PicInb(pic))>> IN
        /\ pic' = PicOutb(pic, w[1], w[2])
        /\ portLog' = Append(portLog, w)
    /\ StepPc(1)
    /\ UNCHANGED <<idt, idtLoaded, intEnabled, ticks, lastDisp, bootFrame>>

\* Timer::init: ticks = 0
TimerReset ==
    /\ Running
    /\ bootPc = "timer_ticks"
    /\ ticks' = 0
    /\ StepPc(1)
    /\ UNCHANGED <<idt, idtLoaded, intEnabled, pic, portLog, lastDisp, bootFrame>>

\* GDT::init: one setGate call
GdtSetGate ==
    /\ Running
    /\ bootPc = "gdt_gates"
    /\ LET g == GdtGates[idtI] IN
        gdt' = gdtSetGate(gdt, g.num, g.base, g.limit, g.access, g.gran)
    /\ StepPc(idtI + 1)
    /\ UNCHANGED <<gdtLoaded, apicVars, apiVars>>
    /\ UNCHANGED <<idt, idtLoaded, intEnabled, pic, portLog, ticks, lastDisp,
                   smpVars, hwVars, apVars, ghostVars, lookupVars, lockVars>>

\* GDT::init: gdt_flush
GdtFlush ==
    /\ Running
    /\ bootPc = "gdt_flush"
    /\ gdtLoaded' = TRUE
    /\ StepPc(1)
    /\ UNCHANGED <<gdt, apicVars, apiVars>>
    /\ UNCHANGED <<idt, idtLoaded, intEnabled, pic, portLog, ticks, lastDisp,
                   smpVars, hwVars, apVars, ghostVars, lookupVars, lockVars>>

\* kernel_main: pmm_init, heap_init, pci_init (no effect on the state kept here)
OtherInit ==
    /\ Running
    /\ bootPc \in {"pmm_init", "heap_init", "pci_init"}
    /\ StepPc(1)
    /\ UNCHANGED <<idt, idtLoaded, intEnabled, pic, portLog, ticks, lastDisp, bootFrame>>

\* smp_init() returns to kernel_main, which halts in a loop
SmpReturn ==
    /\ Running
    /\ bootPc = "smp_init"
    /\ pc = "done"
    /\ StepPc(1)
    /\ UNCHANGED <<idt, idtLoaded, intEnabled, pic, portLog, ticks, lastDisp, bootFrame>>

\* interrupt_handler(regs) with regs->int_no = v
HandleInterruptCall(v) ==
    /\ Running
    /\ LET evs == handleInterrupt(v, smpEnabled, apicAvail) IN
        /\ TicksAfter(ticks, evs) <= MaxTicks
        /\ ticks' = TicksAfter(ticks, evs)
        /\ pic' = PicAfter(pic, evs)
        /\ lastDisp' = [int_no |-> v, events |-> evs, enabled |-> smpEnabled,
                        avail |-> apicAvail, before |-> ticks,
                        after |-> TicksAfter(ticks, evs)]
    /\ UNCHANGED <<bootPc, idtI, idt, idtLoaded, intEnabled, portLog>>

\* the CPU delivers vector v through the loaded table
Dispatch(v) == idtLoaded /\ HandleInterruptCall(v) /\ UNCHANGED bootFrame

\* interrupt_handler returns to the interrupted code
InterruptReturn ==
    /\ ~Running
    /\ lastDisp' = NoDispatch
    /\ UNCHANGED <<bootPc, idtI, idt, idtLoaded, intEnabled, pic, portLog, ticks, bootFrame>>

\* smp_init(), step by step
BootSmp ==
    /\ Running
    /\ bootPc = "smp_init"
    /\ InitStep

BootNext ==
    \/ GdtSetGate
    \/ GdtFlush
    \/ OtherInit
    \/ ClearGate
    \/ InstallGate
    \/ PortWrite
    \/ LoadIdt
    \/ EnableInterrupts
    \/ TimerUnmask
    \/ TimerReset
    \/ BootSmp
    \/ SmpReturn
    \/ \E v \in DispatchVectors : Dispatch(v)
    \/ InterruptReturn
    \/ \E a \in HwIds : APMarkOnline(a)

\* a machine of two cores: the bootstrap core has identity 0, the other core 1
BootHw ==
    /\ apicAvail \in BOOLEAN
    /\ hwBspId = BSP_CPU_ID
    /\ hwCores = {BSP_CPU_ID + 1}

BootInit == BootHw /\ SmpInit /\ LookupIdle /\ IntInit /\ LockIdle /\ RestIdle

BootSpec == BootInit /\ [][BootNext]_vars

\* ---------------------------------------------------------------- spinlock
lockFrame == <<smpVars, hwVars, apVars, ghostVars, lookupVars, intVars, moreVars>>

\* a core between the return of its acquire and its release
CsStates == {"cs", "cs_read", "cs_wrote", "reacquire", "nested"}

InCs(c) == lpc[c] \in CsStates

Holders == {c \in LockCores : InCs(c)}

\* the value a load of core c returns: its own newest buffered store, else memory
Visible(c, var) ==
    LET idx == {i \in DOMAIN sbuf[c] : sbuf[c][i].var = var} IN
    IF idx = {} THEN mem[var]
    ELSE StoredValue(sbuf[c][CHOOSE i \in idx : \A j \in idx : j <= i])

\* core c calls acquire(): from outside the section, or again while holding
CallAcquire(c) ==
    /\ lpc[c] \in {"idle", "cs_read"}
    /\ lpc' = [lpc EXCEPT ![c] = IF lpc[c] = "idle" THEN "acquire" ELSE "reacquire"]
    /\ UNCHANGED <<mem, sbuf, oldValue, wcount, lastRead, lastTry, lockFrame>>

\* acquire(): one iteration of the loop (the exchange drains the store buffer)
AcquireXchg(c) ==
    /\ lpc[c] \in {"acquire", "reacquire"}
    /\ sbuf[c] = <<>>
    /\ mem' = Xchg(mem).mem
    /\ oldValue' = [oldValue EXCEPT ![c] = Xchg(mem).old]
    /\ lpc' = [lpc EXCEPT ![c] =
                IF AcquireReturns(Xchg(mem).old)
                THEN (IF lpc[c] = "acquire" THEN "cs" ELSE "nested")
                ELSE lpc[c]]
    /\ UNCHANGED <<sbuf, wcount, lastRead, lastTry, lockFrame>>

\* core c calls tryAcquire(): from outside the section, or while holding
TryAcquire(c) ==
    /\ lpc[c] \in {"idle", "cs_read"}
    /\ sbuf[c] = <<>>
    /\ mem' = tryAcquire(mem).mem
    /\ oldValue' = [oldValue EXCEPT ![c] = tryAcquire(mem).old]
    /\ lpc' = [lpc EXCEPT ![c] =
                IF tryAcquire(mem).ret
                THEN (IF lpc[c] = "idle" THEN "cs" ELSE "nested")
                ELSE lpc[c]]
    /\ lastTry' = [core |-> c, before |-> mem.lock, result |-> tryAcquire(mem).ret,
                   after |-> tryAcquire(mem).mem.lock,
                   exchanges |-> tryAcquire(mem).exchanges,
                   holders |-> Holders,
                   holdersAfter |-> {d \in LockCores : lpc'[d] \in CsStates}]
    /\ UNCHANGED <<sbuf, wcount, lastRead, lockFrame>>

\* inside the section: core c loads the protected data
CsRead(c) ==
    /\ lpc[c] = "cs"
    /\ lastRead' = [lastRead EXCEPT ![c] = Visible(c, "data")]
    /\ lpc' = [lpc EXCEPT ![c] = "cs_read"]
    /\ UNCHANGED <<mem, sbuf, oldValue, wcount, lastTry, lockFrame>>

\* inside the section: core c stores to the protected data
CsWrite(c) ==
    /\ lpc[c] = "cs_read"
    /\ wcount < MaxWrites
    /\ sbuf' = [sbuf EXCEPT ![c] = Append(@, [var |-> "data", val |-> wcount + 1, by |-> c])]
    /\ wcount' = wcount + 1
    /\ lpc' = [lpc EXCEPT ![c] = "cs_wrote"]
    /\ UNCHANGED <<mem, oldValue, lastRead, lastTry, lockFrame>>

\* core c leaves the section: release()
Release(c) ==
    /\ lpc[c] \in {"cs_read", "cs_wrote"}
    /\ lpc' = [lpc EXCEPT ![c] = "idle"]
    /\ sbuf' = [sbuf EXCEPT ![c] = ReleaseStores(@)]
    /\ lastRead' = [lastRead EXCEPT ![c] = NoRead]
    /\ UNCHANGED <<mem, oldValue, wcount, lastTry, lockFrame>>

\* the oldest store of core c's buffer reaches memory
Flush(c) ==
    /\ sbuf[c] # <<>>
    /\ mem' = [mem EXCEPT ![Head(sbuf[c]).var] = StoredValue(Head(sbuf[c]))]
    /\ sbuf' = [sbuf EXCEPT ![c] = Tail(@)]
    /\ UNCHANGED <<lpc, oldValue, wcount, lastRead, lastTry, lockFrame>>

LockNext ==
    \E c \in LockCores :
        \/ CallAcquire(c)
        \/ AcquireXchg(c)
        \/ TryAcquire(c)
        \/ CsRead(c)
        \/ CsWrite(c)
        \/ Release(c)
        \/ Flush(c)

\* the lock is used on a machine with a bootstrap core of identity 0
LockInit ==
    BootHw /\ SmpInit /\ LookupIdle /\ IntConstructed(PicReset(255, 255)) /\ LockIdle
    /\ RestIdle

LockSpec == LockInit /\ [][LockNext]_vars

\* ---------------------------------------------------------------- spinlock, fair cores
\* core c, which does not hold the lock, calls acquire() or tryAcquire()
OutsideAcquire(c) == lpc[c] = "idle" /\ CallAcquire(c)

OutsideTryAcquire(c) == lpc[c] = "idle" /\ TryAcquire(c)

\* cores that call acquire() or tryAcquire() from outside the section only,
\* and leave the section by release()
FairLockNext ==
    \E c \in LockCores :
        \/ OutsideAcquire(c)
        \/ AcquireXchg(c)
        \/ OutsideTryAcquire(c)
        \/ CsRead(c)
        \/ CsWrite(c)
        \/ Release(c)
        \/ Flush(c)

\* every core goes on executing: a core inside acquire() makes its next
\* exchange, a core inside the section reads and then releases, and a store
\* buffer drains
LockFairness ==
    \A c \in LockCores :
        /\ WF_vars(AcquireXchg(c))
        /\ WF_vars(CsRead(c))
        /\ WF_vars(Release(c))
        /\ WF_vars(Flush(c))

FairLockSpec == LockInit /\ [][FairLockNext]_vars /\ LockFairness

\* ---------------------------------------------------------------- spinlock, any caller
anyLockFrame == <<smpVars, hwVars, apVars, ghostVars, lookupVars, intVars, apicVars,
                  gdtVars, apiCall, gateCall>>

\* a core that is not inside acquire() can make its next call
CanCall(c) == lpc[c] \notin {"acquire", "reacquire"}

\* core c calls release() whether it holds the lock or not
ReleaseAny(c) ==
    /\ CanCall(c)
    /\ Len(sbuf[c]) < MaxBuffered
    /\ sbuf' = [sbuf EXCEPT ![c] = ReleaseStoresFor(@, InCs(c))]
    /\ lpc' = [lpc EXCEPT ![c] = "idle"]
    /\ lastRead' = [lastRead EXCEPT ![c] = NoRead]
    /\ UNCHANGED <<mem, oldValue, wcount, lastTry, anyLockFrame>>
    /\ lockCall' = [op |-> "release", core |-> c, holder |-> InCs(c), ret |-> FALSE,
                    stored |-> (sbuf'[c] = Append(sbuf[c], LockStore)),
                    same |-> (mem' = mem)]

\* core c calls init() on the lock, whatever its state
InitAny(c) ==
    /\ CanCall(c)
    /\ Len(sbuf[c]) < MaxBuffered
    /\ sbuf' = [sbuf EXCEPT ![c] = InitStores(@)]
    /\ lpc' = [lpc EXCEPT ![c] = "idle"]
    /\ lastRead' = [lastRead EXCEPT ![c] = NoRead]
    /\ UNCHANGED <<mem, oldValue, wcount, lastTry, anyLockFrame>>
    /\ lockCall' = [op |-> "init", core |-> c, holder |-> InCs(c), ret |-> FALSE,
                    stored |-> (sbuf'[c] = Append(sbuf[c], LockStore)),
                    same |-> (mem' = mem)]

\* core c calls isLocked()
IsLockedAny(c) ==
    /\ CanCall(c)
    /\ UNCHANGED <<mem, sbuf, lpc, oldValue, wcount, lastRead, lastTry, anyLockFrame>>
    /\ lockCall' = [op |-> "isLocked", core |-> c, holder |-> InCs(c),
                    ret |-> isLocked(Visible(c, "lock")),
                    stored |-> (sbuf' # sbuf),
                    same |-> (mem' = mem)]

\* core c calls acquire() or tryAcquire(), whatever it holds
AcquireAny(c) ==
    /\ CanCall(c)
    /\ lpc' = [lpc EXCEPT ![c] = IF InCs(c) THEN "reacquire" ELSE "acquire"]
    /\ UNCHANGED <<mem, sbuf, oldValue, wcount, lastRead, lastTry, lockFrame>>

TryAcquireAny(c) ==
    /\ CanCall(c)
    /\ sbuf[c] = <<>>
    /\ mem' = tryAcquire(mem).mem
    /\ oldValue' = [oldValue EXCEPT ![c] = tryAcquire(mem).old]
    /\ lpc' = [lpc EXCEPT ![c] =
                IF tryAcquire(mem).ret
                THEN (IF InCs(c) THEN "nested" ELSE "cs")
                ELSE lpc[c]]
    /\ UNCHANGED <<sbuf, wcount, lastRead, lastTry, lockFrame>>

AnyLockNext ==
    \E c \in LockCores :
        \/ AcquireAny(c)
        \/ AcquireXchg(c)
        \/ TryAcquireAny(c)
        \/ ReleaseAny(c)
        \/ InitAny(c)
        \/ IsLockedAny(c)
        \/ Flush(c)

AnyLockSpec == LockInit /\ [][AnyLockNext]_vars

\* ---------------------------------------------------------------- sendIPI
\* bitwise or of two 16-bit values
RECURSIVE BitOr(_, _)
BitOr(a, b) ==
    IF a = 0 THEN b
    ELSE IF b = 0 THEN a
    ELSE (IF a % 2 = 1 \/ b % 2 = 1 THEN 1 ELSE 0) + 2 * BitOr(a \div 2, b \div 2)

\* hardware: the delivery status bit of the low half reads 1 while the
\* command written last has not been delivered
IcrPending(reg) == (reg.low[1] \div DELIVERY_STATUS) % 2 = 1

\* hardware: a write to the low half issues the command; the status bit is
\* read-only and set by the controller
IcrIssue(value) ==
    <<value[1] - ((value[1] \div DELIVERY_STATUS) % 2) * DELIVERY_STATUS + DELIVERY_STATUS,
      value[2]>>

\* variant: the controller never clears the status bit
IcrDeliveredNever(value) == value

\* hardware: the command has been delivered
IcrDelivered(value) == <<value[1] - DELIVERY_STATUS, value[2]>>

\* variant: the loop tests bit 11 (destination mode) of the register
PendingBitSetBit11(value) == (value[1] \div (DELIVERY_STATUS \div 2)) % 2 = 1

\* sendIPI: read(APIC_REG_ICR_LOW) & (1 << 12)
PendingBitSet(value) == (value[1] \div DELIVERY_STATUS) % 2 = 1

\* sendIPI: ((uint32_t)destApicId) << 24
DestField(destApicId) == <<0, (destApicId % Byte) * Byte>>

\* sendIPI: deliveryMode | vector
CommandField(deliveryMode, vector) ==
    <<BitOr(deliveryMode % Word, vector % Byte), deliveryMode \div Word>>

\* arguments of the sendIPI calls followed
IpiDests == {0, 1, MaxUint8}
IpiVectors == {0, SipiVector, MaxUint8}
IpiModes == {APIC_IPI_INIT, APIC_IPI_STARTUP}

ipiFrame == <<smpVars, hwVars, apVars, ghostVars, lookupVars, intVars, lockVars,
              gdtVars, apiVars>>

\* apic_send_ipi(d, v, m) is called
SendIpiCall(d, v, m) ==
    /\ ipc = "idle"
    /\ iargs' = [dest |-> d, vector |-> v, mode |-> m]
    /\ iwrites' = <<>>
    /\ ipolled' = "none"
    /\ ipc' = "poll"
    /\ UNCHANGED <<icr, idropped, ipiFrame>>

\* sendIPI: one evaluation of the loop condition
IpiPoll ==
    /\ ipc = "poll"
    /\ IF PendingBitSet(icr.low)
       THEN /\ ipolled' = "pending"
            /\ UNCHANGED ipc
       ELSE /\ ipolled' = "clear"
            /\ ipc' = "high"
    /\ UNCHANGED <<icr, iargs, iwrites, idropped, ipiFrame>>

\* sendIPI: write(APIC_REG_ICR_HIGH, ...)
IpiWriteHigh ==
    /\ ipc = "high"
    /\ LET w == [reg |-> APIC_REG_ICR_HIGH, val |-> DestField(iargs.dest)] IN
        /\ icr' = [icr EXCEPT !.high = w.val]
        /\ iwrites' = Append(iwrites, w)
    /\ ipc' = "low"
    /\ UNCHANGED <<iargs, ipolled, idropped, ipiFrame>>

\* sendIPI: write(APIC_REG_ICR_LOW, ...), which issues the command
IpiWriteLowStep ==
    /\ ipc = "low"
    /\ LET w == [reg |-> APIC_REG_ICR_LOW, val |-> CommandField(iargs.mode, iargs.vector)] IN
        /\ icr' = [icr EXCEPT !.low = IcrIssue(w.val)]
        /\ iwrites' = Append(iwrites, w)
    /\ idropped' = (idropped \/ IcrPending(icr))
    /\ ipc' = "idle"
    /\ UNCHANGED <<iargs, ipolled>>

IpiWriteLow == IpiWriteLowStep /\ UNCHANGED ipiFrame

\* hardware: the pending command is delivered
IpiDeliver ==
    /\ IcrPending(icr)
    /\ icr' = [icr EXCEPT !.low = IcrDelivered(icr.low)]
    /\ UNCHANGED <<ipc, iargs, iwrites, ipolled, idropped, ipiFrame>>

IpiNext ==
    \/ \E d \in IpiDests, v \in IpiVectors, m \in IpiModes : SendIpiCall(d, v, m)
    \/ IpiPoll
    \/ IpiWriteHigh
    \/ IpiWriteLow
    \/ IpiDeliver

\* a machine with a local controller, which may still be delivering a command
HwApic ==
    /\ apicAvail = TRUE
    /\ hwBspId = BSP_CPU_ID
    /\ hwCores = {BSP_CPU_ID + 1}

IpiInit ==
    /\ HwApic /\ SmpInit /\ LookupIdle /\ IntConstructed(PicReset(255, 255)) /\ LockIdle
    /\ GdtConstructed /\ ApiIdle
    /\ \E p \in BOOLEAN : IpiIdle(p)

IpiSpec == IpiInit /\ [][IpiNext]_vars

\* ---------------------------------------------------------------- init() and the command register
\* startAP: the three apic_send_ipi calls
SendPcs == {"init_ipi", "sipi1", "sipi2"}

\* startAP calls apic_send_ipi(apicId, 0, INIT) or apic_send_ipi(apicId, vector, STARTUP)
StartApCallsIpi ==
    /\ pc \in SendPcs
    /\ IF pc = "init_ipi"
       THEN SendIpiCall(apicId, 0, APIC_IPI_INIT)
       ELSE SendIpiCall(apicId, SipiVector, APIC_IPI_STARTUP)

\* sendIPI writes the low half and returns to startAP, which goes on after
\* its delay
StartApIpiReturns ==
    /\ IpiWriteLowStep
    /\ \/ SendInitStep
       \/ SendSipi1Step
       \/ SendSipi2Step
    /\ UNCHANGED <<gdtVars, apiVars>>

\* the steps of the bootstrap core
BspNext ==
    \/ InitFallback
    \/ InitBsp
    \/ LoopHead
    \/ StartApCallsIpi
    \/ IpiPoll
    \/ IpiWriteHigh
    \/ StartApIpiReturns
    \/ Poll
    \/ PollDelay

FairInitNext ==
    \/ BspNext
    \/ IpiDeliver
    \/ \E a \in HwIds : APMarkOnline(a)

\* the bootstrap core has identity 0; the controller, if there is one, may
\* still be delivering a command of the firmware
FairInitInit ==
    /\ BootHw /\ SmpInit /\ LookupIdle /\ IntConstructed(PicReset(255, 255)) /\ LockIdle
    /\ GdtConstructed /\ ApiIdle
    /\ \E p \in BOOLEAN : (p => apicAvail) /\ IpiIdle(p)

\* the bootstrap core keeps executing and the controller delivers every
\* command it was given; nothing is assumed about the secondary cores
InitFairness == WF_vars(BspNext) /\ WF_vars(IpiDeliver)

FairInitSpec == FairInitInit /\ [][FairInitNext]_vars /\ InitFairness

\* ---------------------------------------------------------------- setGate, any arguments
\* arguments of the setGate calls followed
GateNums == {IRQ_FIRST, IDT_ENTRIES - 1}
GateHandlers == {NullHandler, <<4660, 22136, 39612, 57072>>, <<Word - 1, 0, Word - 1, 0>>}
GateSelectors == {KERNEL_CS, Word - 1}
GateFlags == {GATE_FLAGS, Byte - 1}

\* setGate(n, h, s, f) is called
SetGateCall(n, h, s, f) ==
    /\ idt' = setGate(idt, n, h, s, f)
    /\ gateCall' = [num |-> n, handler |-> h, selector |-> s, flags |-> f, before |-> idt]
    /\ UNCHANGED <<bootPc, idtI, idtLoaded, intEnabled, pic, portLog, ticks, lastDisp>>
    /\ UNCHANGED <<smpVars, hwVars, apVars, ghostVars, lookupVars, lockVars, apicVars,
                   gdtVars, apiCall, lockCall>>

GateNext ==
    \E n \in GateNums, h \in GateHandlers, s \in GateSelectors, f \in GateFlags :
        SetGateCall(n, h, s, f)

GateSpec == Init /\ [][GateNext]_vars

\* ---------------------------------------------------------------- descriptor access
\* SMPManager::getCPUInfo: index of the descriptor returned, -1 for nullptr
getCPUInfo(cpuId) == IF cpuId >= MAX_CPUS THEN -1 ELSE cpuId

\* arguments (uint8_t) of the calls followed
ApiIds == {0, 1, MAX_CPUS - 1, MAX_CPUS, MAX_CPUS + 1, MaxUint8}

InfoFields == {"cpu_id", "apic_id", "online", "kernel_stack"}

\* the descriptor fields in which two descriptor arrays differ
Changed(a, b) == {x \in CpuIndex \X InfoFields : a[x[1]][x[2]] # b[x[1]][x[2]]}

apiFrame == <<pc, apicId, bspApicId, pollI, hwVars, apVars, ipiLog, result, polls,
              marked, inWindow, flagNow, lastCall, apicTouched, lookupVars, intVars,
              lockVars, apicVars, gdtVars>>

\* some core calls markCPUOnline(id) / smp_cpu_online(id)
MarkOnlineCall(id) ==
    /\ cpuInfo' = markCPUOnline(cpuInfo, id)
    /\ written' = written \cup WriteIndex(id)
    /\ UNCHANGED <<cpuCount, smpEnabled, lockCall, gateCall, apiFrame>>
    /\ apiCall' = [op |-> "mark", id |-> id, ret |-> -1,
                   changed |-> Changed(cpuInfo, cpuInfo'),
                   rest |-> (cpuCount' = cpuCount /\ smpEnabled' = smpEnabled),
                   after |-> (id < MAX_CPUS /\ cpuInfo'[id % MAX_CPUS].online)]

\* some core calls getCPUInfo(id) / smp_get_cpu_info(id)
GetCPUInfoCall(id) ==
    /\ UNCHANGED <<cpuInfo, written, cpuCount, smpEnabled, lockCall, gateCall, apiFrame>>
    /\ apiCall' = [op |-> "get", id |-> id, ret |-> getCPUInfo(id),
                   changed |-> Changed(cpuInfo, cpuInfo'),
                   rest |-> (cpuCount' = cpuCount /\ smpEnabled' = smpEnabled),
                   after |-> (id < MAX_CPUS /\ cpuInfo'[id % MAX_CPUS].online)]

\* init() step by step, and calls of markCPUOnline and getCPUInfo by any
\* core at any time
ApiNext ==
    \/ InitStep
    \/ \E id \in ApiIds : MarkOnlineCall(id)
    \/ \E id \in ApiIds : GetCPUInfoCall(id)

ApiInit ==
    /\ BootHw /\ SmpInit /\ LookupIdle /\ IntConstructed(PicReset(255, 255)) /\ LockIdle
    /\ RestIdle

ApiSpec == ApiInit /\ [][ApiNext]_vars

\* ---------------------------------------------------------------- LookupSpec
\* the candidate identity of the last iteration of init()'s loop
LastCandidate(bsp) ==
    IF bsp = maxCPUsToTry - 1 THEN maxCPUsToTry - 2 ELSE maxCPUsToTry - 1

\* identities of the counted descriptors followed
LookupIds == HwIds \cup {maxCPUsToTry - 1}

\* the descriptor table init() returns with: descriptor 0 for the bootstrap
\* core, online; descriptors 1..n-1 counted, with their index as logical id
\* and the candidate identities in the order of the loop; and, if the last
\* candidate was tried and not counted, the descriptor that
\* initCPU(cpuCount, apicId) left for it at index n, online if a secondary
\* core stored into it afterwards
CountedTable(bsp, n, ids, on, tried, lastOn) ==
    [i \in CpuIndex |->
        IF i = 0 THEN [cpu_id |-> BSP_CPU_ID, apic_id |-> bsp, online |-> TRUE,
                       kernel_stack |-> 0]
        ELSE IF i < n THEN [cpu_id |-> i, apic_id |-> ids[i], online |-> on[i],
                            kernel_stack |-> 0]
        ELSE IF i = n /\ tried
             THEN [cpu_id |-> i, apic_id |-> LastCandidate(bsp), online |-> lastOn,
                   kernel_stack |-> 0]
        ELSE ZeroInfo]

\* the object state and the hardware are inputs: init() has returned, in
\* single core mode or with n descriptors counted, multicore active only
\* with more than one
LookupInit ==
    /\ HwInit /\ LookupIdle /\ IntConstructed(PicReset(255, 255)) /\ LockIdle /\ RestIdle
    /\ \E n \in 1 .. MaxCount, enabled \in BOOLEAN, lastOn \in BOOLEAN,
          ids \in [1 .. MaxCount -> LookupIds \ {hwBspId}],
          on \in [1 .. MaxCount -> BOOLEAN] :
        LET bsp == IF apicAvail THEN hwBspId ELSE 0
            tried == apicAvail /\ (n = 1 \/ ids[n - 1] # LastCandidate(bsp))
        IN  /\ enabled => n > 1
            /\ ~apicAvail => n = 1
            /\ ~tried => ~lastOn
            /\ \A i \in 1 .. (MaxCount - 1) : ids[i] < ids[i + 1]
            /\ \A i \in 1 .. MaxCount : i >= n => ~on[i]
            /\ SmpObject(CountedTable(bsp, n, ids, on, tried, lastOn), n, enabled, "done")

\* the descriptor index a secondary core stores to: the one init() created
\* for the first candidate
LookupMarkIds == {BSP_CPU_ID + 1}

\* getCurrentCPU() called by any core, markCPUOnline called by a secondary
\* core and interrupt_handler called for any of the vectors followed
LookupNext ==
    \/ \E c \in BspIds : GetCurrentCPUCall(c)
    \/ \E id \in LookupMarkIds : MarkOnlineCall(id)
    \/ \E v \in DispatchVectors : HandleInterruptCall(v) /\ UNCHANGED bootFrame
    \/ InterruptReturn

LookupSpec == LookupInit /\ [][LookupNext]_vars

\* ---------------------------------------------------------------- properties
Recorded(id) == \E i \in 0 .. (cpuCount - 1) : cpuInfo[i].apic_id = id

\* C1: scenario B. Bootstrap core plus 3 secondary cores, each of which calls
\* markCPUOnline for its descriptor before its own startAP call returns:
\* init() ends with 4 cores counted, multicore active, descriptors 0..3 online.
C1_ScenarioB ==
    (pc = "done" /\ apicAvail /\ Cardinality(cores) = 3 /\ inWindow = cores)
        => /\ cpuCount = 4
           /\ smpEnabled
           /\ \A i \in 0 .. 3 : cpuInfo[i].online

\* C2: a startAP call during which the online flag of the descriptor created
\* for the candidate became true returns true.
C2_FlagSetMeansSuccess ==
    (lastCall.apic # -1 /\ lastCall.flagged) => lastCall.ok

\* C3: scenario C. With a local controller and exactly one secondary core that
\* marks itself online, within its polling window, init() ends with 2 cores
\* counted and multicore active.
C3_ScenarioC ==
    (pc = "done" /\ apicAvail /\ Cardinality(marked) = 1 /\ inWindow = marked)
        => (cpuCount = 2 /\ smpEnabled)

\* C4: single-core fallback. When the capability probe is false, init() ends
\* with 1 core counted, multicore inactive and descriptor 0 online, whatever
\* the hardware identity of the bootstrap core.
C4_SingleCoreFallback ==
    (pc = "done" /\ ~apicAvail)
        => (cpuCount = 1 /\ ~smpEnabled /\ cpuInfo[0].online)

C4_Witness ==
    pc = "done" /\ ~apicAvail /\ hwBspId # 0 /\ cpuCount = 1 /\ cpuInfo[0].online

\* C5: a startAP call during which the candidate's flag never became true
\* returns false after exactly 3 IPIs and exactly 100 polls; no call polls more
\* than 100 times, and a call polls only after its 3 IPIs.
C5_TimeoutBounded ==
    /\ \A a \in Candidates :
          /\ polls[a] <= PollRetries
          /\ Len(ipiLog[a]) <= 3
          /\ polls[a] > 0 => Len(ipiLog[a]) = 3
    /\ (lastCall.apic # -1 /\ ~lastCall.flagged)
          => /\ ~lastCall.ok
             /\ polls[lastCall.apic] = PollRetries
             /\ Len(ipiLog[lastCall.apic]) = 3

C5_Witness ==
    /\ lastCall.apic \in cores
    /\ ~lastCall.flagged
    /\ ~lastCall.ok
    /\ polls[lastCall.apic] = PollRetries
    /\ apState[lastCall.apic] = "running"

\* C6: a timed-out start attempt does not affect later candidates: the online
\* flag of a secondary descriptor is true only if the core whose identity the
\* descriptor holds has itself called markCPUOnline.
C6_TimeoutIsolated ==
    \A i \in written \ {BSP_CPU_ID} :
        cpuInfo[i].online => cpuInfo[i].apic_id \in marked

\* the descriptors whose online flag is set
OnlineDescriptors == {i \in CpuIndex : cpuInfo[i].online}

\* C7: after init() returns on hardware with a local controller, multicore is
\* active iff the core count is greater than 1, that is, iff more than one
\* core is recorded as online.
C7_EnabledIffOnline ==
    (pc = "done" /\ apicAvail)
        => /\ smpEnabled <=> cpuCount > 1
           /\ smpEnabled <=> Cardinality(OnlineDescriptors) > 1

\* C8: in every state 1 <= cpuCount <= MAX_CPUS and only descriptor indices
\* below MAX_CPUS have been written; after init() returns descriptor 0 is online.
C8_CountAndBootstrap ==
    /\ 1 <= cpuCount
    /\ cpuCount <= MAX_CPUS
    /\ written \subseteq CpuIndex
    /\ pc = "done" => cpuInfo[BSP_CPU_ID].online

C8_Witness ==
    /\ pc = "done"
    /\ apicAvail
    /\ marked # {}
    /\ marked # cores
    /\ written # {BSP_CPU_ID}
    /\ cpuInfo[BSP_CPU_ID].online

\* C9: getCurrentCPU() called while multicore is inactive returns logical id 0
\* for every identity of the caller and does not read the local controller.
C9_InactiveReturnsBsp ==
    (ret # -1 /\ ~callEnabled) => (ret = BSP_CPU_ID /\ ~idRead)

C9_Witness ==
    /\ ret = BSP_CPU_ID
    /\ ~callEnabled
    /\ ~idRead
    /\ caller # hwBspId
    /\ \E i \in 1 .. (cpuCount - 1) : cpuInfo[i].apic_id = caller

\* C10: getCurrentCPU() called while multicore is active by a core whose
\* identity is recorded in descriptors 0..cpuCount-1 returns the logical id of
\* that descriptor; online cores of different identities get different ids.
C10_ActiveLookup ==
    /\ (ret # -1 /\ callEnabled /\ Recorded(caller))
          => /\ idRead
             /\ \A i \in 0 .. (cpuCount - 1) :
                   cpuInfo[i].apic_id = caller => ret = cpuInfo[i].cpu_id
    /\ smpEnabled
          => \A i, j \in 0 .. (cpuCount - 1) :
                (/\ cpuInfo[i].online
                 /\ cpuInfo[j].online
                 /\ cpuInfo[i].apic_id # cpuInfo[j].apic_id)
                    => getCurrentCPU(cpuInfo, cpuCount, smpEnabled, cpuInfo[i].apic_id)
                         # getCurrentCPU(cpuInfo, cpuCount, smpEnabled, cpuInfo[j].apic_id)

C10_Witness ==
    /\ ret > 0
    /\ callEnabled
    /\ Recorded(caller)
    /\ ret # caller
    /\ cpuCount > 2

\* ---------------------------------------------------------------- dispatch properties
IsOutb(e) == e.op = "outb"
IsApicWrite(e) == e.op = "apic_write"
IsTimerCall(e) == e.op = "timer_handler"

\* the legacy-controller writes, local-controller writes and callback calls of
\* the latest handleInterrupt call
OutbOf(d) == SelectSeq(d.events, IsOutb)
ApicWritesOf(d) == SelectSeq(d.events, IsApicWrite)
TimerCallsOf(d) == SelectSeq(d.events, IsTimerCall)

Dispatched(lo, hi) == lastDisp.int_no >= lo /\ lastDisp.int_no <= hi

\* kernel_main is past the phase ph
After(ph) == PhaseIndex(bootPc) > PhaseIndex(ph)

\* the vectors init() installs a handler for
InstalledVectors == (0 .. (EXCEPTION_GATES - 1)) \cup {IRQ_FIRST, IRQ_FIRST + 1}

\* a gate the CPU can deliver through
Installed(e) == Present(e) /\ HandlerOf(e) # NullHandler

\* C11: with multicore inactive, handleInterrupt for a vector in 32..39 makes
\* exactly one legacy acknowledge write, to the primary controller, and for a
\* vector in 40..47 exactly two, secondary first and primary second; in both
\* cases it makes no local-controller write.
C11_LegacyAck ==
    (Dispatched(IRQ_FIRST, IRQ_END - 1) /\ ~lastDisp.enabled)
        => /\ ApicWritesOf(lastDisp) = <<>>
           /\ OutbOf(lastDisp) =
                IF lastDisp.int_no < IRQ_SLAVE_FIRST
                THEN <<Ev("outb", PIC1_COMMAND, PIC_EOI)>>
                ELSE <<Ev("outb", PIC2_COMMAND, PIC_EOI), Ev("outb", PIC1_COMMAND, PIC_EOI)>>

C11_Witness ==
    /\ lastDisp.int_no = 44
    /\ ~lastDisp.enabled
    /\ Len(OutbOf(lastDisp)) = 2

\* C12: for a vector in 32..47 handleInterrupt acknowledges through the local
\* controller (one write of the EOI register, no legacy write) exactly when
\* multicore is active and the local controller is present; otherwise it
\* acknowledges through the legacy controller only.
C12_AckRoute ==
    Dispatched(IRQ_FIRST, IRQ_END - 1)
        => IF lastDisp.enabled /\ lastDisp.avail
           THEN /\ ApicWritesOf(lastDisp) = <<Ev("apic_write", APIC_REG_EOI, 0)>>
                /\ OutbOf(lastDisp) = <<>>
           ELSE /\ ApicWritesOf(lastDisp) = <<>>
                /\ OutbOf(lastDisp) # <<>>

C12_Witness ==
    /\ Dispatched(IRQ_FIRST, IRQ_END - 1)
    /\ lastDisp.enabled
    /\ lastDisp.avail
    /\ Len(ApicWritesOf(lastDisp)) = 1

\* C13: handleInterrupt calls the timer callback once when the vector is 32
\* and not at all for any other vector, the call comes before every
\* acknowledge write, and the tick count is one higher after a dispatch of
\* vector 32 and the same after any other dispatch.
C13_TimerCallback ==
    ~Running
        => /\ Len(TimerCallsOf(lastDisp)) = (IF lastDisp.int_no = IRQ_FIRST THEN 1 ELSE 0)
           /\ \A i \in DOMAIN lastDisp.events :
                IsTimerCall(lastDisp.events[i]) => i = 1
           /\ lastDisp.after = (IF lastDisp.int_no = IRQ_FIRST
                                THEN lastDisp.before + 1
                                ELSE lastDisp.before)
           /\ ticks = lastDisp.after

C13_Witness ==
    /\ lastDisp.int_no = IRQ_FIRST
    /\ lastDisp.before = 0
    /\ ticks = 1
    /\ Len(lastDisp.events) = 2

\* C14: once init() of the dispatch table has returned, vectors 0..31, 32 and
\* 33 are installed (present bit, non-zero handler, selector 0x08) and vectors
\* 34..255 are not (handler 0, present bit clear); and whenever the table is
\* loaded, an entry with a non-zero handler has the present bit.
\* (Every vector outside NonZeroVectors(idt) holds ZeroEntry, so the vectors
\* of NonZeroVectors(idt) and ZeroEntry itself are what has to be looked at.)
C14_InstalledVectors ==
    /\ HandlerOf(ZeroEntry) = NullHandler /\ ~Present(ZeroEntry)
    /\ After("sti")
        => /\ \A v \in InstalledVectors :
                /\ Installed(EntryAt(idt, v))
                /\ EntryAt(idt, v).selector = KERNEL_CS
           /\ \A v \in NonZeroVectors(idt) \ InstalledVectors :
                /\ HandlerOf(EntryAt(idt, v)) = NullHandler
                /\ ~Present(EntryAt(idt, v))
    /\ idtLoaded
        => \A v \in NonZeroVectors(idt) :
            HandlerOf(EntryAt(idt, v)) # NullHandler => Present(EntryAt(idt, v))

C14_Witness ==
    /\ After("sti")
    /\ idtLoaded
    /\ Installed(EntryAt(idt, IRQ_FIRST + 1))
    /\ ~Installed(EntryAt(idt, IRQ_FIRST + 2))

\* C15: from the end of the remap sequence, through the rest of init() of the
\* dispatch table, and until Timer::init unmasks a line, both mask registers
\* hold 0xFF.
C15_AllMasked ==
    (After("remap") /\ ~After("timer_unmask"))
        => (pic.mask1 = 255 /\ pic.mask2 = 255)

C15_Witness ==
    /\ bootPc = "timer_unmask"
    /\ intEnabled
    /\ pic.mask1 = 255
    /\ pic.mask2 = 255
    /\ Len(portLog) = Len(RemapWrites) + Len(TimerWrites)

\* C16: once init() has returned no step changes any entry of the dispatch
\* table, and in every step, init() included, a vector that is installed
\* stays installed.
C16_TableImmutable ==
    [][/\ After("sti") => idt' = idt
       /\ idt' # idt
            => \A v \in Vectors :
                Installed(EntryAt(idt, v)) => Installed(EntryAt(idt', v))]_vars

C16_Witness ==
    /\ bootPc = "halt"
    /\ lastDisp.int_no = IRQ_FIRST + 1
    /\ cpuInfo[1].online
    /\ Installed(EntryAt(idt, IRQ_FIRST + 1))

\* ---------------------------------------------------------------- spinlock properties
IsLockStore(s) == s.var = LockStore.var /\ s.val = LockStore.val

\* C17: when every core enters the critical section only through a returned
\* acquire() or a true tryAcquire() and calls release() only to leave it, at
\* most one core is inside the section; and no core gets the lock a second
\* time before its release.
C17_MutualExclusion ==
    /\ Cardinality(Holders) <= 1
    /\ \A c \in LockCores : lpc[c] # "nested"

C17_Witness ==
    \E c, d \in LockCores :
        /\ lpc[c] = "cs_wrote"
        /\ lpc[d] = "acquire"
        /\ oldValue[d] = 1
        /\ wcount = MaxWrites

\* C18: tryAcquire() makes exactly one exchange and returns; on a held lock
\* it returns false and leaves the lock held, with the same holder; on a free
\* lock it returns true and the lock is held, by the caller.
C18_TryAcquire ==
    lastTry.core # -1
        => /\ lastTry.exchanges = 1
           /\ lastTry.after = 1
           /\ lastTry.before = 1
                => (~lastTry.result /\ lastTry.holdersAfter = lastTry.holders)
           /\ lastTry.before = 0
                => (lastTry.result
                    /\ lastTry.holdersAfter = lastTry.holders \cup {lastTry.core})

C18_Witness ==
    /\ lastTry.core # -1
    /\ lastTry.before = 1
    /\ ~lastTry.result
    /\ lastTry.holders # {}
    /\ lastTry.core \notin lastTry.holders

\* C19: acquire() returns only from an exchange that read 0; the lock word
\* goes from held to free only when a store made by release() reaches
\* memory, so without a release no acquire() returns while the lock is held;
\* and a core that calls acquire() while it holds the lock stays in that call.
C19_AcquireBlocks ==
    [][/\ \A c \in LockCores :
            (lpc[c] \in {"acquire", "reacquire"} /\ lpc'[c] # lpc[c])
                => (mem.lock = 0 /\ oldValue'[c] = 0)
       /\ (mem.lock = 1 /\ mem'.lock = 0)
            => \E c \in LockCores :
                /\ sbuf[c] # <<>>
                /\ IsLockStore(Head(sbuf[c]))
                /\ sbuf'[c] = Tail(sbuf[c])
       /\ \A c \in LockCores :
            Len(SelectSeq(sbuf'[c], IsLockStore)) > Len(SelectSeq(sbuf[c], IsLockStore))
                => (lpc[c] \in {"cs_read", "cs_wrote"} /\ lpc'[c] = "idle")
       /\ \A c \in LockCores : lpc[c] = "reacquire" => lpc'[c] = "reacquire"]_vars

C19_Witness ==
    \E c, d \in LockCores :
        /\ lpc[c] = "reacquire"
        /\ oldValue[c] = 1
        /\ lpc[d] = "acquire"
        /\ oldValue[d] = 1
        /\ mem.lock = 1

\* C20: a core that has acquired the lock reads, inside the section, the
\* latest value written to the protected data inside a section: it never
\* finds the lock free while a write made under the lock is still invisible
\* to it.
C20_WritesVisible ==
    \A c \in LockCores : lpc[c] = "cs_read" => lastRead[c].n = wcount

C20_Witness ==
    \E c, d \in LockCores :
        /\ c # d
        /\ lpc[c] = "cs_read"
        /\ lastRead[c].n = wcount
        /\ lastRead[c].by = d

\* ---------------------------------------------------------------- C22 .. C30
\* C22: once GDT::init has returned, entry 0 of the descriptor table has every
\* field zero (the null descriptor).
C22_NullDescriptor ==
    After("gdt_flush") =>
        /\ gdt[0].limit_low = 0
        /\ gdt[0].base_low = 0
        /\ gdt[0].base_middle = 0
        /\ gdt[0].access = 0
        /\ gdt[0].granularity = 0
        /\ gdt[0].base_high = 0

C22_Witness ==
    /\ After("gdt_flush")
    /\ gdtLoaded
    /\ gdt[0] = ZeroGdtEntry
    /\ gdt[1].access = 154
    /\ gdt[4].granularity = 207

\* C23: kernel_main runs descriptor setup, dispatch table, memory manager,
\* timer and bring-up coordinator in this order: the dispatch table is touched
\* only with the descriptor table loaded, the timer is programmed only with
\* the dispatch table loaded and the memory manager phases behind, and init()
\* of the coordinator starts only with the table loaded, the timer programmed
\* and the timer line unmasked.
C23_BootOrder ==
    /\ (idt # ConstructorIdt \/ idtLoaded \/ portLog # <<>>) => gdtLoaded
    /\ bootPc \in {"pmm_init", "heap_init"} => (idtLoaded /\ intEnabled /\ portLog = RemapWrites)
    /\ Len(portLog) > Len(RemapWrites) => (idtLoaded /\ After("heap_init"))
    /\ pc # "boot"
        => /\ gdtLoaded
           /\ idtLoaded
           /\ intEnabled
           /\ Len(portLog) = Len(RemapWrites) + Len(TimerWrites) + 1
           /\ SubSeq(portLog, Len(RemapWrites) + 1, Len(RemapWrites) + Len(TimerWrites))
                = TimerWrites
           /\ pic.mask1 % 2 = 0
           /\ After("pci_init")

C23_Witness ==
    /\ pc = "done"
    /\ bootPc = "halt"
    /\ gdtLoaded
    /\ idtLoaded
    /\ pic.mask1 = 254

\* C21: sendIPI writes nothing to the interrupt command register until a
\* read of the delivery-status bit returned clear; it then makes exactly two
\* writes, the destination (identity in bits 24..31 of the high half) first
\* and mode | vector (low half) second; no command is issued while the
\* previous one is pending.
C21_IpiProtocol ==
    /\ ~idropped
    /\ iwrites # <<>> => ipolled = "clear"
    /\ ipc \in {"high", "low"} => ipolled = "clear"
    /\ ipc \in {"poll", "high"} => iwrites = <<>>
    /\ ipc = "low"
        => iwrites = << [reg |-> APIC_REG_ICR_HIGH, val |-> <<0, iargs.dest * 256>>] >>
    /\ (ipc = "idle" /\ ipolled # "none")
        => iwrites = << [reg |-> APIC_REG_ICR_HIGH, val |-> <<0, iargs.dest * 256>>],
                        [reg |-> APIC_REG_ICR_LOW, val |-> <<iargs.mode + iargs.vector, 0>>] >>

C21_Witness ==
    /\ ipc = "idle"
    /\ Len(iwrites) = 2
    /\ iargs = [dest |-> 1, vector |-> SipiVector, mode |-> APIC_IPI_STARTUP]
    /\ icr.high = <<0, 256>>
    /\ icr.low = <<1544 + DELIVERY_STATUS, 0>>
    /\ ~idropped

\* C24: markCPUOnline(id) with id >= MAX_CPUS leaves every descriptor, the
\* core count and the multicore flag unchanged; getCPUInfo(id) with
\* id >= MAX_CPUS returns null without touching any state.
C24_OutOfRange ==
    /\ (apiCall.op = "mark" /\ apiCall.id >= MAX_CPUS)
        => (apiCall.changed = {} /\ apiCall.rest)
    /\ (apiCall.op = "get" /\ apiCall.id >= MAX_CPUS)
        => (apiCall.ret = -1 /\ apiCall.changed = {} /\ apiCall.rest)

C24_Witness ==
    /\ apiCall.op = "mark"
    /\ apiCall.id = MAX_CPUS
    /\ apiCall.changed = {}
    /\ apiCall.rest
    /\ pc = "poll"
    /\ cpuInfo[0].online
    /\ cpuInfo[1].cpu_id = 1
    /\ ~cpuInfo[1].online

\* C29: markCPUOnline(id) with id < MAX_CPUS sets the online flag of
\* descriptor id and nothing else: the logical and hardware identity of that
\* descriptor, every other descriptor, the core count and the multicore flag
\* are unchanged.
C29_MarkFrame ==
    (apiCall.op = "mark" /\ apiCall.id < MAX_CPUS)
        => /\ apiCall.after
           /\ apiCall.changed \subseteq {<<apiCall.id, "online">>}
           /\ apiCall.rest

C29_Witness ==
    /\ apiCall.op = "mark"
    /\ apiCall.id = 1
    /\ apiCall.changed = {<<1, "online">>}
    /\ cpuInfo[1].online
    /\ cpuInfo[1].apic_id = 2
    /\ cpuCount = 1

\* C25: interrupt_handler (interrupts.c) and InterruptManager::handleInterrupt
\* (interrupts.cpp) make the same sequence of timer callbacks and acknowledge
\* writes, for every vector and every multicore / local controller state.
C25_VariantsAgree ==
    ~Running => lastDisp.events = interrupt_handler(lastDisp.int_no)

\* the IPIs of one startAP call for candidate a, each with the delay after it
StartupProtocol(a) ==
    << <<a, 0, APIC_IPI_INIT, 10000>>,
       <<a, 8, APIC_IPI_STARTUP, 200>>,
       <<a, 8, APIC_IPI_STARTUP, 200>> >>

\* C26: the IPIs of each call startAP(apicId) are exactly INIT with vector 0,
\* STARTUP, STARTUP, in this order, all addressed to apicId, both STARTUPs
\* with the trampoline page number 0x08; a settle delay follows each one, and
\* the online flag is polled only after the second STARTUP.
C26_StartupProtocol ==
    \A a \in Candidates :
        /\ Len(ipiLog[a]) <= 3
        /\ ipiLog[a] = SubSeq(StartupProtocol(a), 1, Len(ipiLog[a]))
        /\ (polls[a] > 0 \/ result[a] # "untried") => ipiLog[a] = StartupProtocol(a)
        /\ (pc \in {"poll", "wait"} /\ apicId = a) => ipiLog[a] = StartupProtocol(a)
        /\ (pc = "sipi2" /\ apicId = a) => (polls[a] = 0 /\ Len(ipiLog[a]) = 2)

C26_Witness ==
    /\ pc = "poll"
    /\ apicId = 2
    /\ pollI = 1
    /\ polls[2] = 1
    /\ ipiLog[2] = StartupProtocol(2)
    /\ apState[2] = "online"

\* C27: with a local controller, init() attempts every candidate identity
\* 0..11 other than the identity of the bootstrap core exactly once, in
\* ascending order, whatever the outcome of the earlier attempts, and sends
\* no IPI to the identity of the bootstrap core.
C27_EveryCandidateOnce ==
    /\ [](/\ (pc = "done" /\ apicAvail)
              => \A a \in Candidates :
                    IF a = hwBspId
                    THEN result[a] = "untried" /\ ipiLog[a] = <<>>
                    ELSE result[a] # "untried" /\ Len(ipiLog[a]) = 3
          /\ \A a \in Candidates :
                \A k \in 1 .. Len(ipiLog[a]) :
                    ipiLog[a][k][1] = a /\ ipiLog[a][k][1] # hwBspId)
    /\ [][(pc = "loop" /\ pc' = "init_ipi")
            => /\ apicId # hwBspId
               /\ result[apicId] = "untried"
               /\ ipiLog[apicId] = <<>>
               /\ \A b \in Candidates :
                    IF b < apicId /\ b # hwBspId
                    THEN result[b] # "untried"
                    ELSE result[b] = "untried"]_vars

C27_Witness ==
    /\ pc = "done"
    /\ apicAvail
    /\ hwBspId = 2
    /\ result[2] = "untried"
    /\ \A a \in Candidates \ {2} : result[a] = "timeout" /\ Len(ipiLog[a]) = 3
    /\ marked = {0, 1, 3}

\* C28: in the single-core fallback init() makes no access to the local
\* controller: it is not enabled, its identity is not read, no IPI is sent
\* and no start attempt is made; the capability probe changes no state.
C28_FallbackNoController ==
    /\ [](~apicAvail
            => /\ ~apicTouched
               /\ bspApicId = 0
               /\ icr = IcrReset(FALSE)
               /\ iwrites = <<>>
               /\ \A a \in Candidates :
                    ipiLog[a] = <<>> /\ result[a] = "untried" /\ polls[a] = 0
               /\ \A a \in HwIds : apState[a] = "halted")
    /\ [][(pc = "boot" /\ ~apicAvail /\ pc' # "boot")
            => /\ pc' = "done"
               /\ UNCHANGED <<hwVars, apVars, apicVars, apicTouched, ipiLog, result,
                              polls, lastCall, apicId, bspApicId, pollI>>]_vars

C28_Witness ==
    /\ pc = "done"
    /\ ~apicAvail
    /\ hwBspId = 3
    /\ ~apicTouched
    /\ cpuInfo[0].apic_id = 0
    /\ \A a \in Candidates : ipiLog[a] = <<>>

\* C30: init() of the dispatch table enables interrupts only as its last
\* step: at the step that sets the interrupt flag the table is loaded, vectors
\* 0..33 are installed, the legacy controllers are remapped to offsets 32 and
\* 40 with all 16 lines masked, and init() has nothing left to do.
C30_StiLast ==
    /\ [](intEnabled => After("sti"))
    /\ [][(~intEnabled /\ intEnabled')
            => /\ idtLoaded
               /\ \A v \in 0 .. 33 : Installed(EntryAt(idt, v))
               /\ portLog = RemapWrites
               /\ pic.base1 = 32
               /\ pic.base2 = 40
               /\ pic.mask1 = 255
               /\ pic.mask2 = 255
               /\ \A k \in DOMAIN IdtInitOrder : bootPc' # IdtInitOrder[k]
               /\ UNCHANGED <<idt, idtLoaded, pic, portLog>>]_vars

C30_Witness ==
    /\ intEnabled
    /\ bootPc = "pmm_init"
    /\ Running
    /\ idtLoaded
    /\ pic.base1 = 32
    /\ pic.base2 = 40
    /\ ticks = 0
    /\ \A v \in 0 .. 33 : Installed(EntryAt(idt, v))

\* ---------------------------------------------------------------- C31 .. C40
\* the handshake of remapPIC as port / value pairs: initialize, vector
\* offsets, cascade wiring, mode, masks
RemapHandshake ==
    << <<32, 17>>, <<160, 17>>,
       <<33, 32>>, <<161, 40>>,
       <<33, 4>>,  <<161, 2>>,
       <<33, 1>>,  <<161, 1>>,
       <<33, 255>>, <<161, 255>> >>

\* C31: the port writes of the remap are, in this order, 0x11 to both command
\* ports, the vector offsets 0x20 and 0x28, the cascade wiring 0x04 and 0x02,
\* the mode 0x01 to both, and then the two mask writes; none is skipped or
\* reordered, and no other port write comes in between.
C31_RemapOrder ==
    /\ Len(portLog) <= Len(RemapHandshake)
        => portLog = SubSeq(RemapHandshake, 1, Len(portLog))
    /\ Len(portLog) > Len(RemapHandshake)
        => SubSeq(portLog, 1, Len(RemapHandshake)) = RemapHandshake
    /\ After("remap") => Len(portLog) >= Len(RemapHandshake)
    /\ bootPc = "remap" => Len(portLog) = idtI - 1

C31_Witness ==
    /\ bootPc = "remap"
    /\ idtI = 9
    /\ Len(portLog) = 8
    /\ portLog[7] = <<33, 1>>
    /\ pic.base1 = 32
    /\ pic.base2 = 40
    /\ pic.mask1 = 0

\* bit k of the byte x is set
BitSet(x, k) == (x \div (2 ^ k)) % 2 = 1

\* descriptor privilege level: bits 5 and 6 of the access byte
Dpl(access) == (access \div 32) % 4

\* C32: after GDT::init the code segments 1 and 3 are executable, readable
\* and long-mode, the data segments 2 and 4 are writable and not executable,
\* entries 1 and 2 have privilege level 0 and entries 3 and 4 privilege level
\* 3, and all four are present.
C32_SegmentBits ==
    After("gdt_flush") =>
        /\ \A n \in {1, 3} :
            /\ BitSet(gdt[n].access, 3)
            /\ BitSet(gdt[n].access, 1)
            /\ BitSet(gdt[n].granularity, 5)
        /\ \A n \in {2, 4} :
            /\ BitSet(gdt[n].access, 1)
            /\ ~BitSet(gdt[n].access, 3)
        /\ \A n \in {1, 2} : Dpl(gdt[n].access) = 0
        /\ \A n \in {3, 4} : Dpl(gdt[n].access) = 3
        /\ \A n \in 1 .. 4 : BitSet(gdt[n].access, 7)

C32_Witness ==
    /\ bootPc = "idt_clear"
    /\ gdtLoaded
    /\ gdt[3].access = 250
    /\ gdt[3].granularity = 175
    /\ gdt[2].access = 146
    /\ gdt[2].granularity = 207

\* C33: release() stores "free" without looking at who holds the lock: the
\* store is made for a caller that holds the lock and for one that does not,
\* and when it reaches memory the lock word is 0 whatever it was; on a free
\* lock this changes nothing. Under any sequence of init, acquire,
\* tryAcquire, release and isLocked calls the lock word is 0 or 1, and
\* isLocked() changes neither memory nor a store buffer.
C33_ReleaseUnchecked ==
    /\ [](/\ mem.lock \in {0, 1}
          /\ \A c \in LockCores : \A k \in DOMAIN sbuf[c] :
                sbuf[c][k].var = "lock" => sbuf[c][k].val \in {0, 1}
          /\ lockCall.op = "release" => lockCall.stored
          /\ lockCall.op = "isLocked" => (lockCall.same /\ ~lockCall.stored))
    /\ [][\A c \in LockCores :
            (sbuf[c] # <<>> /\ sbuf'[c] = Tail(sbuf[c]) /\ IsLockStore(Head(sbuf[c])))
                => /\ mem'.lock = 0
                   /\ mem.lock = 0 => mem' = mem]_vars

C33_Witness ==
    \E c, d \in LockCores :
        /\ c # d
        /\ lockCall.op = "release"
        /\ lockCall.core = c
        /\ ~lockCall.holder
        /\ lpc[d] = "cs"
        /\ lpc[c] = "idle"
        /\ sbuf[c] = <<>>
        /\ mem.lock = 0

\* C34: for a vector outside 32..47 (exceptions 0..31, software vectors
\* 48..255) handleInterrupt makes no acknowledge write, neither to a legacy
\* controller nor to the local controller, and calls no callback: it makes
\* no call and no device write at all, and the tick count is as before.
C34_NoAckOutsideIrqs ==
    (~Running /\ (lastDisp.int_no < 32 \/ lastDisp.int_no > 47))
        => /\ lastDisp.events = <<>>
           /\ lastDisp.after = lastDisp.before
           /\ interrupt_handler(lastDisp.int_no) = <<>>

C34_Witness ==
    /\ ~Running
    /\ lastDisp.int_no = 48
    /\ lastDisp.enabled
    /\ lastDisp.avail
    /\ lastDisp.events = <<>>
    /\ ticks = 1

\* some core enters the critical section in this step
Acquisition == \E c \in LockCores : lpc[c] \notin CsStates /\ lpc'[c] \in CsStates

\* C35 as stated: with fair cores and holders that release, each core that
\* calls acquire() eventually returns from it.
C35_AcquireReturns ==
    \A c \in LockCores : (lpc[c] = "acquire") ~> (lpc[c] = "cs")

\* C35: with fair cores and holders that release, the lock keeps being
\* taken as long as cores keep waiting for it: if again and again some core
\* is inside acquire(), then again and again some core enters the section. No
\* core in particular is sure to return from acquire().
C35_LockKeepsMoving ==
    []<>(\E c \in LockCores : lpc[c] = "acquire") => []<><<Acquisition>>_vars

C35_Witness ==
    \E c, d \in LockCores :
        /\ c # d
        /\ lpc[c] = "acquire"
        /\ oldValue[c] = 1
        /\ lpc[d] = "cs_wrote"
        /\ wcount = 2
        /\ lastRead[d].by = d

\* C36: during and after init(), in every interleaving with secondary cores
\* that call markCPUOnline, an online flag that is true stays true, and the
\* physical id of a descriptor whose flag is true is not overwritten.
C36_OnlineMonotone ==
    [][\A i \in CpuIndex :
        cpuInfo[i].online
            => (cpuInfo'[i].online /\ cpuInfo'[i].apic_id = cpuInfo[i].apic_id)]_vars

\* init() has not returned yet (it has not been called, or it is in its loop)
BringUp == pc # "done"

\* C37: the multicore flag changes at most once, from false to true, and only
\* in the last step of init(); until init() returns it is false, so every
\* interrupt 32..47 dispatched in that time is acknowledged on the legacy
\* controller only and getCurrentCPU() gives 0 for every core; once init()
\* has returned the flag does not change any more.
C37_FlagSetLast ==
    /\ [](BringUp
            => /\ ~smpEnabled
               /\ \A c \in HwIds :
                    getCurrentCPU(cpuInfo, cpuCount, smpEnabled, c) = BSP_CPU_ID
               /\ (~Running /\ Dispatched(IRQ_FIRST, IRQ_END - 1))
                    => /\ ~lastDisp.enabled
                       /\ ApicWritesOf(lastDisp) = <<>>
                       /\ OutbOf(lastDisp) = PicEoi(lastDisp.int_no))
    /\ [][/\ smpEnabled' # smpEnabled
                => (~smpEnabled /\ smpEnabled' /\ BringUp /\ pc' = "done")
          /\ ~BringUp => (smpEnabled' = smpEnabled /\ pc' = "done")]_vars

\* an interrupt of the secondary legacy controller is being handled while
\* init() polls for a secondary core that has already marked itself online,
\* on a machine with a local controller
C37_Witness ==
    /\ pc = "poll"
    /\ cpuInfo[1].online
    /\ cpuInfo[1].apic_id \in marked
    /\ apicAvail
    /\ ~Running
    /\ lastDisp.int_no = IRQ_SLAVE_FIRST + 4
    /\ Len(OutbOf(lastDisp)) = 2
    /\ getCurrentCPU(cpuInfo, cpuCount, smpEnabled, cpuInfo[1].apic_id) = BSP_CPU_ID

\* C38: sendIPI has no timeout and leaves its loop only on reading the pending
\* bit clear; if the controller eventually delivers every command, every
\* sendIPI call returns and init() returns, after at most 12 start attempts
\* of at most 100 polls each, whether or not any candidate responds.
C38_InitTerminates ==
    /\ <>(pc = "done")
    /\ (ipc = "poll") ~> (ipc = "idle")
    /\ [](/\ apicId <= maxCPUsToTry
          /\ \A a \in Candidates : polls[a] <= PollRetries
          /\ ipc # "idle" => pc \in SendPcs)
    /\ [][(ipc = "poll" /\ ipc' # "poll")
            => (~PendingBitSet(icr.low) /\ ipolled' = "clear")]_vars

\* the last candidate's second startup call is waiting for the controller,
\* after a candidate that did not respond within 100 polls
C38_Witness ==
    /\ apicId = maxCPUsToTry - 1
    /\ pc = "sipi2"
    /\ ipc = "poll"
    /\ ipolled = "pending"
    /\ polls[apicId - 1] = PollRetries
    /\ marked = {}

\* C39: once init() has returned, every descriptor below getCPUCount() has
\* its index as logical id and is online, the physical ids of these
\* descriptors are pairwise distinct, and getCPUCount() is the number of
\* descriptors recorded as online.
C39_CountMatchesOnline ==
    pc = "done"
        => /\ \A i \in 0 .. (cpuCount - 1) :
                cpuInfo[i].cpu_id = i /\ cpuInfo[i].online
           /\ \A i, j \in 0 .. (cpuCount - 1) :
                cpuInfo[i].apic_id = cpuInfo[j].apic_id => i = j
           /\ Cardinality(OnlineDescriptors) = cpuCount

\* a 16-bit or 32-bit field widened to 64 bits, a 64-bit value shifted left by
\* k * 16 bits, and the bitwise or of two 64-bit values
Widen16(x) == <<x, 0, 0, 0>>
Widen32(x) == <<x[1], x[2], 0, 0>>
ShiftLeft16(x, k) == [i \in 1 .. 4 |-> IF i > k THEN x[i - k] ELSE 0]
Or64(x, y) == [i \in 1 .. 4 |-> BitOr(x[i], y[i])]

\* offset_low | offset_mid << 16 | offset_high << 32
GateAddress(e) ==
    Or64(Or64(Widen16(e.offset_low), ShiftLeft16(Widen16(e.offset_mid), 1)),
         ShiftLeft16(Widen32(e.offset_high), 2))

\* C40: after setGate(n, h, s, f) the three offset fields of entry n put
\* together as low | mid << 16 | high << 32 give h, the selector and the
\* flags are stored unchanged, ist and the reserved field are 0, and no other
\* entry of the table is modified.
C40_GateRoundTrip ==
    gateCall # NoGateCall
        => LET e == EntryAt(idt, gateCall.num) IN
            /\ GateAddress(e) = gateCall.handler
            /\ e.selector = gateCall.selector
            /\ e.type_attr = gateCall.flags
            /\ e.ist = 0
            /\ e.zero = 0
            /\ \A v \in Vectors \ {gateCall.num} :
                    EntryAt(idt, v) = EntryAt(gateCall.before, v)

\* a gate whose address has different bits in all four 16-bit parts has been
\* stored at vector 255 while vector 32 holds another gate
C40_Witness ==
    /\ gateCall.num = IDT_ENTRIES - 1
    /\ gateCall.handler = <<4660, 22136, 39612, 57072>>
    /\ gateCall.selector = KERNEL_CS
    /\ EntryAt(idt, gateCall.num).offset_mid = 22136
    /\ EntryAt(idt, IRQ_FIRST).type_attr = Byte - 1

====
